---- MODULE Spec2Model ----
(***************************************************************************)
(* Tool Lifecycle Ledger & Projection Engine of pulse-api.                 *)
(*                                                                         *)
(* The model follows src/src/controllers/inventoryController.js statement  *)
(* by statement: every `await db.query(...)` of a handler is one step of   *)
(* the request that runs the handler.  db.query is pool.query              *)
(* (src/unnamed/part_003, the db module): each statement is run on a       *)
(* connection the pool hands out for that statement alone, and BEGIN,      *)
(* COMMIT and ROLLBACK act on the connection they happen to run on.        *)
(*                                                                         *)
(* The database is PostgreSQL at READ COMMITTED: a statement sees the      *)
(* committed rows plus the uncommitted writes of its own connection; a     *)
(* write to a row that another connection has written in an open           *)
(* transaction waits for that transaction to end.                          *)
(*                                                                         *)
(* Modelled are the tables centralized_inventory,                          *)
(* tool_maintenance_history and daily_tool_summary with the columns the    *)
(* ledger, its projection and its daily rollup consist of; tool_id and     *)
(* inventory_id are one key.  The historical import validates each element *)
(* of its body and checks the factory of the caller before it opens its    *)
(* transaction.  The statements on ups, the SET of the session variable    *)
(* and the timestamps updated_at and created_at change none of these       *)
(* columns; a failure of one of them inside a try block is a step of       *)
(* queryThrows.  The table drive_status is read by the status queries of   *)
(* src/src/routes/factoryRoutes.js and written by no handler of the        *)
(* sources: SpecResolver starts from any stream of status records.  The    *)
(* caller of a request is req.user with its role and factory: SpecFactory  *)
(* sends the requests of a UnitAdmin.  The audit trail that                *)
(* get_inventory_change_history reads is written by a trigger that is not  *)
(* part of the sources: SpecHistory starts from any audit trail.  The      *)
(* schema is not part of the sources: no foreign key, CHECK constraint or  *)
(* other trigger is assumed, and the life columns hold numbers.            *)
(***************************************************************************)
EXTENDS Integers, Sequences, FiniteSets, TLC

\* ------------------------------------------------------------- bounds
NumProcs == 2
PoolSize == 2
MaxRequests == 3
MaxConcurrentRequests == 2
MaxLifeConsumed == 2
MaxInitialCount == 1
MaxBatch == 1
MaxEvents == 1
MaxImportLife == 2
MaxImportSequence == 2
MaxSummaryDate == 2
MaxHistoricalEvents == 3
MaxBatchTools == 3
MaxImportRequests == 1
MaxTools == 2
MaxMachines == 2
MaxStatusRecords == 3

Procs == 1..NumProcs
Pool == 1..PoolSize

\* ------------------------------------------------------------- values
NOT_IN_USE == "not in use"
RUNNING == "running"
SENT_REGRINDING == "sent to madern for regrinding"
SENT_RESEGMENTATION == "sent to madern for resegmentation"
DELETED == "deleted"

REGRINDING == "regrinding"
RESEGMENTATION == "resegmentation"
INITIAL == "initial"

\* Column defaults of centralized_inventory that the INSERT of
\* createInventoryTool leaves to the schema.
DefaultToolLife == 0

\* ------------------------------------------------------------- helpers
Max(S) == CHOOSE x \in S : \A y \in S : y <= x

RECURSIVE SumOver(_, _)
SumOver(f, S) ==
    IF S = {} THEN 0
    ELSE LET k == CHOOSE x \in S : TRUE IN f[k] + SumOver(f, S \ {k})

\* ------------------------------------------------------------- database
\* A table is a function from primary key to row.  The uncommitted writes
\* of a connection are an overlay: key |-> <<row>> (written) or <<>> (deleted).
EmptyTable == [k \in {} |-> 0]

Visible(tbl, ov) ==
    LET keys == {k \in (DOMAIN tbl) \cup (DOMAIN ov) :
                    IF k \in DOMAIN ov THEN ov[k] # <<>> ELSE TRUE}
    IN [k \in keys |-> IF k \in DOMAIN ov THEN ov[k][1] ELSE tbl[k]]

\* The overlay after a statement that left the visible table as `now` and
\* touched the rows `keys`.
Overlay(ov, now, keys) ==
    [k \in (DOMAIN ov) \cup keys |->
        IF k \in keys THEN (IF k \in DOMAIN now THEN <<now[k]>> ELSE <<>>)
        ELSE ov[k]]

NoTransaction ==
    [inTxn |-> FALSE, inv |-> EmptyTable, hist |-> EmptyTable, sum |-> EmptyTable]

VARIABLES
    centralized_inventory,      \* committed rows, by inventory_id (= tool_id)
    tool_maintenance_history,   \* committed ledger rows, by history_id
    inventory_id_seq,           \* the serial of centralized_inventory
    daily_tool_summary,         \* committed rollup rows, by <<tool_id, machine_id, summary_date>>
    history_id_seq,             \* the serial of tool_maintenance_history
    conn,                       \* per pooled connection: its open transaction
    lastConn,                   \* the connection released last (top of the idle list)
    pc,                         \* per request: the statement it is about to run
    loc,                        \* per request: req.params, req.body and the handler's locals
    res,                        \* per request: the response sent
    before,                     \* per request: the committed tables when it arrived
    last,                       \* the maintenance event the latest answered request applied
    nreq,                       \* requests received so far
    drive_status,               \* the status stream, in insertion order
    resolved,                   \* the rows the latest status query returned
    change_log                  \* the audit trail of field changes, by log_id

vars == <<centralized_inventory, tool_maintenance_history, daily_tool_summary,
          inventory_id_seq, history_id_seq, conn, lastConn, pc, loc, res, before,
          last, nreq, drive_status, resolved, change_log>>

db_vars == <<centralized_inventory, tool_maintenance_history, daily_tool_summary, conn>>

status_vars == <<drive_status, resolved, change_log>>

\* What a statement on connection c sees.
InvOn(c) == Visible(centralized_inventory, conn[c].inv)
HistOn(c) == Visible(tool_maintenance_history, conn[c].hist)
SumOn(c) == Visible(daily_tool_summary, conn[c].sum)

\* A row lock is held on every row an open transaction has written.
InvLocked(c, keys) ==
    \E d \in Pool \ {c} : conn[d].inTxn /\ keys \cap DOMAIN conn[d].inv # {}
HistLocked(c, keys) ==
    \E d \in Pool \ {c} : conn[d].inTxn /\ keys \cap DOMAIN conn[d].hist # {}
SumLocked(c, keys) ==
    \E d \in Pool \ {c} : conn[d].inTxn /\ keys \cap DOMAIN conn[d].sum # {}

\* A write statement on connection c: it waits for the locks, then its
\* effect goes to the open transaction of c, or is committed at once when c
\* has none (autocommit).
WriteInv(c, now, keys) ==
    /\ ~InvLocked(c, keys)
    /\ IF conn[c].inTxn
       THEN /\ conn' = [conn EXCEPT ![c].inv = Overlay(conn[c].inv, now, keys)]
            /\ UNCHANGED centralized_inventory
       ELSE /\ centralized_inventory' = now
            /\ UNCHANGED conn
    /\ UNCHANGED <<tool_maintenance_history, daily_tool_summary>>

WriteHist(c, now, keys) ==
    /\ ~HistLocked(c, keys)
    /\ IF conn[c].inTxn
       THEN /\ conn' = [conn EXCEPT ![c].hist = Overlay(conn[c].hist, now, keys)]
            /\ UNCHANGED tool_maintenance_history
       ELSE /\ tool_maintenance_history' = now
            /\ UNCHANGED conn
    /\ UNCHANGED <<centralized_inventory, daily_tool_summary>>

WriteSum(c, now, keys) ==
    /\ ~SumLocked(c, keys)
    /\ IF conn[c].inTxn
       THEN /\ conn' = [conn EXCEPT ![c].sum = Overlay(conn[c].sum, now, keys)]
            /\ UNCHANGED daily_tool_summary
       ELSE /\ daily_tool_summary' = now
            /\ UNCHANGED conn
    /\ UNCHANGED <<centralized_inventory, tool_maintenance_history>>

\* BEGIN on a connection already in a transaction, and COMMIT or ROLLBACK
\* on one that is in none, are accepted by PostgreSQL with a warning.
Begin(c) ==
    /\ conn' = [conn EXCEPT ![c].inTxn = TRUE]
    /\ UNCHANGED <<centralized_inventory, tool_maintenance_history, daily_tool_summary>>

Commit(c) ==
    /\ centralized_inventory' = InvOn(c)
    /\ tool_maintenance_history' = HistOn(c)
    /\ daily_tool_summary' = SumOn(c)
    /\ conn' = [conn EXCEPT ![c] = NoTransaction]

Rollback(c) ==
    /\ conn' = [conn EXCEPT ![c] = NoTransaction]
    /\ UNCHANGED <<centralized_inventory, tool_maintenance_history, daily_tool_summary>>

\* ------------------------------------------------------------- the pool
Active(p) == pc[p] \notin {"idle", "done"}

\* pool.query(text, params): the statement runs on a connection that is
\* checked out of the pool for this statement alone and released after it.
\* With one request in flight every statement gets the connection that was
\* released last.  With several in flight a released connection goes to
\* whichever statement waits for one, so the statements of one request can
\* run on any connection of the pool.
PoolQuery(p) ==
    IF \E q \in Procs \ {p} : Active(q) THEN Pool ELSE {lastConn}

\* ------------------------------------------------------------- requests
\* req.user, as authMiddleware leaves it: the role and the factory of the
\* caller.  The routes admit BusinessAdmin and UnitAdmin to the handlers that
\* write.
BusinessAdmin == [role |-> "BusinessAdmin", factory_id |-> 0]

UnitAdmin(factory_id) == [role |-> "UnitAdmin", factory_id |-> factory_id]

\* current_factory_id = 0 is a body without the field.
NoLocals ==
    [ handler |-> "", user |-> BusinessAdmin,
      inventoryId |-> 0, historyId |-> 0,
      status |-> "", life_consumed |-> 0, current_factory_id |-> 0,
      number_of_regrinding |-> 0, number_of_resegmentation |-> 0,
      currentTool |-> <<>>, fieldsToUpdate |-> EmptyTable,
      maintenanceEvent |-> <<>>, updatedTool |-> <<>>,
      eventSequence |-> 0, previousLifeAtEvent |-> 0,
      record |-> <<>>, shouldRevertStatus |-> FALSE,
      tools |-> <<>>, i |-> 0, j |-> 0, newTool |-> <<>>,
      previousLifeValue |-> 0, eventsInserted |-> 0,
      success |-> <<>>, errors |-> <<>>,
      summaryKey |-> <<>>, lifeGained |-> 0, rows |-> {} ]

NoResponse ==
    [ code |-> 0, changed |-> FALSE, statusReverted |-> FALSE, history_id |-> 0,
      successful |-> 0, failed |-> 0, rows |-> {} ]

NoSnapshot == [inv |-> EmptyTable, hist |-> EmptyTable, sum |-> EmptyTable]

Snapshot ==
    [ inv |-> centralized_inventory, hist |-> tool_maintenance_history,
      sum |-> daily_tool_summary ]

\* What a status query leaves in `resolved`: the handler and its parameters,
\* the rows of its CTE (tool_id |-> the position in drive_status of the row
\* that DISTINCT ON kept for the tool), and the rows it returned.
NoRows ==
    [ handler |-> "", machineId |-> 0, toolType |-> "",
      latest |-> EmptyTable, rows |-> {}, code |-> 0 ]

\* History of the run, for the properties that relate one request to the
\* request before it: the ledger entry the latest answered request wrote as a
\* maintenance event, with the tool's row as that request read it.
NoEvent == [history_id |-> 0, tool |-> <<>>]

Init ==
    /\ centralized_inventory = EmptyTable
    /\ tool_maintenance_history = EmptyTable
    /\ daily_tool_summary = EmptyTable
    /\ inventory_id_seq = 1
    /\ history_id_seq = 1
    /\ conn = [c \in Pool |-> NoTransaction]
    /\ lastConn = 1
    /\ pc = [p \in Procs |-> "idle"]
    /\ loc = [p \in Procs |-> NoLocals]
    /\ res = [p \in Procs |-> NoResponse]
    /\ before = [p \in Procs |-> NoSnapshot]
    /\ last = NoEvent
    /\ nreq = 0
    /\ drive_status = <<>>
    /\ resolved = NoRows
    /\ change_log = EmptyTable

\* A request arrives: Express calls the handler with req.params and req.body.
Receive(p, handler, first, locals) ==
    /\ pc[p] = "idle"
    /\ nreq < MaxRequests
    /\ nreq' = nreq + 1
    /\ pc' = [pc EXCEPT ![p] = first]
    /\ loc' = [loc EXCEPT ![p] = locals]
    /\ before' = [before EXCEPT ![p] = Snapshot]
    /\ last' = IF handler = "deleteMaintenanceHistory"
                  /\ locals.historyId = last.history_id
               THEN last ELSE NoEvent
    /\ UNCHANGED <<db_vars, inventory_id_seq, history_id_seq, lastConn, res, status_vars>>

\* res.status(code).json(body): the handler is over.
Respond(p, body) ==
    /\ pc' = [pc EXCEPT ![p] = "done"]
    /\ res' = [res EXCEPT ![p] = body]
    /\ last' = IF body.code = 200 /\ body.history_id # 0
               THEN [history_id |-> body.history_id, tool |-> loc[p].currentTool]
               ELSE last

Goto(p, next) ==
    /\ pc' = [pc EXCEPT ![p] = next]
    /\ UNCHANGED <<res, last>>

\* The client has read the response; the request's locals are gone.
Return(p) ==
    /\ pc[p] = "done"
    /\ pc' = [pc EXCEPT ![p] = "idle"]
    /\ loc' = [loc EXCEPT ![p] = NoLocals]
    /\ res' = [res EXCEPT ![p] = NoResponse]
    /\ before' = [before EXCEPT ![p] = NoSnapshot]
    /\ last' = IF loc[p].handler = "deleteMaintenanceHistory" THEN NoEvent ELSE last
    /\ UNCHANGED <<db_vars, inventory_id_seq, history_id_seq, lastConn, nreq, status_vars>>

\* One `await db.query(...)` of request p, run on connection c.
Query(p, c) ==
    /\ c \in PoolQuery(p)
    /\ lastConn' = c
    /\ UNCHANGED <<before, nreq, status_vars>>

Lookup(tbl, key) == IF key \in DOMAIN tbl THEN <<tbl[key]>> ELSE <<>>

\* UPDATE ... SET <fields>: the row with the given columns replaced.
SetFields(row, fields) ==
    [f \in DOMAIN row |-> IF f \in DOMAIN fields THEN fields[f] ELSE row[f]]

\* ------------------------------------------------- createInventoryTool
\* Lines 267-272 and 405-409: the factory a new tool is put in.
FactoryId(user, current_factory_id) ==
    IF user.role # "BusinessAdmin" THEN user.factory_id ELSE current_factory_id

NewTool(id, status, life, regrindCount, resegCount, factoryId) ==
    [ tool_id |-> id,
      current_factory_id |-> factoryId,
      status |-> status,
      current_tool_life |-> life,
      baseline_tool_life |-> life,
      number_of_regrinding |-> regrindCount,
      number_of_resegmentation |-> resegCount ]

createInventoryTool(p) ==
    \E nr \in 0..MaxInitialCount, ns \in 0..MaxInitialCount :
        Receive(p, "createInventoryTool", "create_begin",
                [NoLocals EXCEPT !.handler = "createInventoryTool",
                                 !.current_factory_id = 1,
                                 !.number_of_regrinding = nr,
                                 !.number_of_resegmentation = ns])

create_begin(p) ==
    /\ pc[p] = "create_begin"
    /\ \E c \in Pool :
        /\ Query(p, c)
        /\ Begin(c)
    /\ Goto(p, "create_insert")
    /\ UNCHANGED <<inventory_id_seq, history_id_seq, loc>>

create_insert(p) ==
    /\ pc[p] = "create_insert"
    /\ \E c \in Pool :
        LET id == inventory_id_seq
            newTool == NewTool(id, NOT_IN_USE, DefaultToolLife,
                               loc[p].number_of_regrinding,
                               loc[p].number_of_resegmentation,
                               FactoryId(loc[p].user, loc[p].current_factory_id))
        IN /\ Query(p, c)
           /\ WriteInv(c, (id :> newTool) @@ InvOn(c), {id})
           /\ inventory_id_seq' = id + 1
           /\ loc' = [loc EXCEPT ![p].inventoryId = id]
    /\ Goto(p, "create_commit")
    /\ UNCHANGED history_id_seq

create_commit(p) ==
    /\ pc[p] = "create_commit"
    /\ \E c \in Pool :
        /\ Query(p, c)
        /\ Commit(c)
    /\ Respond(p, [NoResponse EXCEPT !.code = 201])
    /\ UNCHANGED <<inventory_id_seq, history_id_seq, loc>>

\* ------------------------------------------------- updateInventoryTool
\* A faulty variant of MaintenanceEvent: the resegmentation branch counts up
\* from number_of_regrinding.  C9_EventEffects does not hold of it.
MaintenanceEventCopiedCount(status, life_consumed, currentTool) ==
    IF status = "" \/ status = currentTool.status THEN <<>>
    ELSE IF status = SENT_REGRINDING
    THEN << [ type |-> REGRINDING,
              countField |-> "number_of_regrinding",
              newCount |-> currentTool.number_of_regrinding + 1,
              lifeConsumed |-> life_consumed ] >>
    ELSE IF status = SENT_RESEGMENTATION
    THEN << [ type |-> RESEGMENTATION,
              countField |-> "number_of_resegmentation",
              newCount |-> currentTool.number_of_regrinding + 1,
              lifeConsumed |-> life_consumed ] >>
    ELSE <<>>

\* Lines 645-675: the maintenance event a status change stands for.
MaintenanceEvent(status, life_consumed, currentTool) ==
    IF status = "" \/ status = currentTool.status THEN <<>>
    ELSE IF status = SENT_REGRINDING
    THEN << [ type |-> REGRINDING,
              countField |-> "number_of_regrinding",
              newCount |-> currentTool.number_of_regrinding + 1,
              lifeConsumed |-> life_consumed ] >>
    ELSE IF status = SENT_RESEGMENTATION
    THEN << [ type |-> RESEGMENTATION,
              countField |-> "number_of_resegmentation",
              newCount |-> currentTool.number_of_resegmentation + 1,
              lifeConsumed |-> life_consumed ] >>
    ELSE <<>>

\* A faulty variant of FieldsToUpdate: a status that is given is written
\* whether it differs from the current one or not.  C29_NoChangeWritesNothing
\* does not hold of it.
FieldsToUpdateUncompared(status, life_consumed, currentTool) ==
    LET ev == MaintenanceEvent(status, life_consumed, currentTool)
    IN IF status = "" THEN EmptyTable
       ELSE ("status" :> status)
            @@ (IF ev # <<>> THEN (ev[1].countField :> ev[1].newCount) ELSE EmptyTable)
            @@ (IF ev # <<>> /\ life_consumed # 0
                THEN ("current_tool_life" :> currentTool.current_tool_life + life_consumed)
                ELSE EmptyTable)

\* Lines 641-675: the columns the UPDATE sets (life_consumed = 0 is the
\* request without a life_consumed: `if (life_consumed)` is false for both).
FieldsToUpdate(status, life_consumed, currentTool) ==
    LET ev == MaintenanceEvent(status, life_consumed, currentTool)
    IN IF status = "" \/ status = currentTool.status THEN EmptyTable
       ELSE ("status" :> status)
            @@ (IF ev # <<>> THEN (ev[1].countField :> ev[1].newCount) ELSE EmptyTable)
            @@ (IF ev # <<>> /\ life_consumed # 0
                THEN ("current_tool_life" :> currentTool.current_tool_life + life_consumed)
                ELSE EmptyTable)

\* Lines 676-679: the factory, when the body names another one.
FactoryToUpdate(current_factory_id, currentTool) ==
    IF current_factory_id # 0 /\ current_factory_id # currentTool.current_factory_id
    THEN ("current_factory_id" :> current_factory_id)
    ELSE EmptyTable

\* Lines 636-639 and 859-864: a UnitAdmin writes to the tools of their own
\* factory only.
Forbidden(user, tool) ==
    user.role = "UnitAdmin" /\ user.factory_id # tool.current_factory_id

updateInventoryTool(p, statuses, lives) ==
    \E id \in 1..inventory_id_seq, status \in statuses, life \in lives :
        Receive(p, "updateInventoryTool", "update_select",
                [NoLocals EXCEPT !.handler = "updateInventoryTool",
                                 !.inventoryId = id,
                                 !.status = status,
                                 !.life_consumed = life])

update_select(p) ==
    /\ pc[p] = "update_select"
    /\ \E c \in Pool :
        LET rows == Lookup(InvOn(c), loc[p].inventoryId)
            fields == FieldsToUpdate(loc[p].status, loc[p].life_consumed, rows[1])
                      @@ FactoryToUpdate(loc[p].current_factory_id, rows[1])
        IN /\ Query(p, c)
           /\ IF rows = <<>>
              THEN /\ Respond(p, [NoResponse EXCEPT !.code = 404])
                   /\ UNCHANGED loc
              ELSE IF Forbidden(loc[p].user, rows[1])
              THEN /\ Respond(p, [NoResponse EXCEPT !.code = 403])
                   /\ UNCHANGED loc
              ELSE /\ loc' = [loc EXCEPT
                                ![p].currentTool = rows,
                                ![p].fieldsToUpdate = fields,
                                ![p].maintenanceEvent =
                                    MaintenanceEvent(loc[p].status, loc[p].life_consumed, rows[1])]
                   /\ IF DOMAIN fields = {}
                      THEN Respond(p, [NoResponse EXCEPT !.code = 200, !.changed = FALSE])
                      ELSE Goto(p, "update_begin")
    /\ UNCHANGED <<db_vars, inventory_id_seq, history_id_seq>>

update_begin(p) ==
    /\ pc[p] = "update_begin"
    /\ \E c \in Pool :
        /\ Query(p, c)
        /\ Begin(c)
    /\ Goto(p, "update_update")
    /\ UNCHANGED <<inventory_id_seq, history_id_seq, loc>>

update_update(p) ==
    /\ pc[p] = "update_update"
    /\ \E c \in Pool :
        LET id == loc[p].inventoryId
            rows == Lookup(InvOn(c), id)
            updated == SetFields(rows[1], loc[p].fieldsToUpdate)
        IN /\ Query(p, c)
           /\ IF rows = <<>>
              THEN /\ UNCHANGED db_vars
                   /\ loc' = [loc EXCEPT ![p].updatedTool = <<>>]
                   \* updatedTool.tool_id of undefined throws
                   /\ Goto(p, IF loc[p].maintenanceEvent # <<>>
                              THEN "rollback" ELSE "update_commit")
              ELSE /\ WriteInv(c, [InvOn(c) EXCEPT ![id] = updated], {id})
                   /\ loc' = [loc EXCEPT ![p].updatedTool = <<updated>>]
                   /\ Goto(p, IF loc[p].maintenanceEvent # <<>>
                              THEN "update_sequence" ELSE "update_commit")
    /\ UNCHANGED <<inventory_id_seq, history_id_seq>>

\* SELECT COALESCE(MAX(event_sequence), 0) + 1 ... WHERE tool_id AND event_type
NextSequence(hist, tool_id, event_type) ==
    LET S == {hist[h].event_sequence : h \in
                {k \in DOMAIN hist : hist[k].tool_id = tool_id
                                     /\ hist[k].event_type = event_type}}
    IN (IF S = {} THEN 0 ELSE Max(S)) + 1

\* SELECT tool_life_at_event ... WHERE tool_id AND is_deleted = FALSE
\* ORDER BY tool_life_at_event DESC LIMIT 1, and 0 when there is no row.
PreviousLifeAtEvent(hist, tool_id) ==
    LET S == {hist[h].tool_life_at_event : h \in
                {k \in DOMAIN hist : hist[k].tool_id = tool_id /\ ~hist[k].is_deleted}}
    IN IF S = {} THEN 0 ELSE Max(S)

update_sequence(p) ==
    /\ pc[p] = "update_sequence"
    /\ \E c \in Pool :
        /\ Query(p, c)
        /\ loc' = [loc EXCEPT ![p].eventSequence =
                      NextSequence(HistOn(c), loc[p].updatedTool[1].tool_id,
                                   loc[p].maintenanceEvent[1].type)]
    /\ Goto(p, "update_last")
    /\ UNCHANGED <<db_vars, inventory_id_seq, history_id_seq>>

update_last(p) ==
    /\ pc[p] = "update_last"
    /\ \E c \in Pool :
        /\ Query(p, c)
        /\ loc' = [loc EXCEPT ![p].previousLifeAtEvent =
                      PreviousLifeAtEvent(HistOn(c), loc[p].updatedTool[1].tool_id)]
    /\ Goto(p, "update_insert")
    /\ UNCHANGED <<db_vars, inventory_id_seq, history_id_seq>>

\* A timestamp is a calendar day 1..MaxSummaryDate of the imported history
\* (new Date(date), line 517) or an instant of today, which comes after them:
\* CURRENT_TIMESTAMP (line 787) and new Date() (line 517) at the INSERT of
\* entry h are later than at the INSERT of any entry before it.
CurrentTimestamp(h) == MaxSummaryDate + h

HistoryRecord(tool_id, event_type, tool_life_at_event, life_consumed, event_sequence, timestamp) ==
    [ tool_id |-> tool_id,
      timestamp |-> timestamp,
      event_type |-> event_type,
      tool_life_at_event |-> tool_life_at_event,
      life_consumed |-> life_consumed,
      event_sequence |-> event_sequence,
      is_deleted |-> FALSE ]

update_insert(p) ==
    /\ pc[p] = "update_insert"
    /\ \E c \in Pool :
        LET h == history_id_seq
            updatedTool == loc[p].updatedTool[1]
            calculatedLifeConsumed ==
                updatedTool.current_tool_life - loc[p].previousLifeAtEvent
            rec == HistoryRecord(updatedTool.tool_id, loc[p].maintenanceEvent[1].type,
                                 updatedTool.current_tool_life, calculatedLifeConsumed,
                                 loc[p].eventSequence, CurrentTimestamp(h))
        IN /\ Query(p, c)
           /\ WriteHist(c, (h :> rec) @@ HistOn(c), {h})
           /\ history_id_seq' = h + 1
           /\ loc' = [loc EXCEPT ![p].historyId = h]
    /\ Goto(p, "update_commit")
    /\ UNCHANGED inventory_id_seq

update_commit(p) ==
    /\ pc[p] = "update_commit"
    /\ \E c \in Pool :
        /\ Query(p, c)
        /\ Commit(c)
    /\ Respond(p, [NoResponse EXCEPT !.code = 200, !.changed = TRUE,
                                     !.history_id = loc[p].historyId])
    /\ UNCHANGED <<inventory_id_seq, history_id_seq, loc>>

\* ------------------------------------------------- deleteInventoryTool
deleteInventoryTool(p) ==
    \E id \in 1..inventory_id_seq :
        Receive(p, "deleteInventoryTool", "delete_select",
                [NoLocals EXCEPT !.handler = "deleteInventoryTool",
                                 !.inventoryId = id])

delete_select(p) ==
    /\ pc[p] = "delete_select"
    /\ \E c \in Pool :
        LET rows == Lookup(InvOn(c), loc[p].inventoryId)
        IN /\ Query(p, c)
           /\ IF rows = <<>>
              THEN /\ Respond(p, [NoResponse EXCEPT !.code = 404])
                   /\ UNCHANGED loc
              ELSE IF Forbidden(loc[p].user, rows[1])
              THEN /\ Respond(p, [NoResponse EXCEPT !.code = 403])
                   /\ UNCHANGED loc
              ELSE /\ loc' = [loc EXCEPT ![p].currentTool = rows]
                   /\ Goto(p, "delete_begin")
    /\ UNCHANGED <<db_vars, inventory_id_seq, history_id_seq>>

delete_begin(p) ==
    /\ pc[p] = "delete_begin"
    /\ \E c \in Pool :
        /\ Query(p, c)
        /\ Begin(c)
    /\ Goto(p, "delete_update")
    /\ UNCHANGED <<inventory_id_seq, history_id_seq, loc>>

\* UPDATE centralized_inventory SET status = 'deleted' WHERE inventory_id = $1
delete_update(p) ==
    /\ pc[p] = "delete_update"
    /\ \E c \in Pool :
        LET id == loc[p].inventoryId
            rows == Lookup(InvOn(c), id)
        IN /\ Query(p, c)
           /\ IF rows = <<>>
              THEN UNCHANGED db_vars
              ELSE WriteInv(c, [InvOn(c) EXCEPT ![id].status = DELETED], {id})
    /\ Goto(p, "delete_history")
    /\ UNCHANGED <<inventory_id_seq, history_id_seq, loc>>

\* A faulty variant of delete_history: the UPDATE has no WHERE clause.
\* C20_SoftDelete does not hold of it.
delete_historyEveryTool(p) ==
    /\ pc[p] = "delete_history"
    /\ \E c \in Pool :
        LET hist == HistOn(c)
        IN /\ Query(p, c)
           /\ WriteHist(c, [h \in DOMAIN hist |-> [hist[h] EXCEPT !.is_deleted = TRUE]],
                        DOMAIN hist)
    /\ Goto(p, "delete_commit")
    /\ UNCHANGED <<inventory_id_seq, history_id_seq, loc>>

\* UPDATE tool_maintenance_history SET is_deleted = true WHERE tool_id = $1
delete_history(p) ==
    /\ pc[p] = "delete_history"
    /\ \E c \in Pool :
        LET hist == HistOn(c)
            keys == {h \in DOMAIN hist : hist[h].tool_id = loc[p].currentTool[1].tool_id}
        IN /\ Query(p, c)
           /\ WriteHist(c, [h \in DOMAIN hist |->
                              IF h \in keys THEN [hist[h] EXCEPT !.is_deleted = TRUE]
                              ELSE hist[h]], keys)
    /\ Goto(p, "delete_commit")
    /\ UNCHANGED <<inventory_id_seq, history_id_seq, loc>>

delete_commit(p) ==
    /\ pc[p] = "delete_commit"
    /\ \E c \in Pool :
        /\ Query(p, c)
        /\ Commit(c)
    /\ Respond(p, [NoResponse EXCEPT !.code = 200])
    /\ UNCHANGED <<inventory_id_seq, history_id_seq, loc>>

\* ------------------------------------------------- deleteMaintenanceHistory
deleteMaintenanceHistory(p) ==
    \E h \in 1..history_id_seq :
        Receive(p, "deleteMaintenanceHistory", "revert_begin",
                [NoLocals EXCEPT !.handler = "deleteMaintenanceHistory",
                                 !.historyId = h])

revert_begin(p) ==
    /\ pc[p] = "revert_begin"
    /\ \E c \in Pool :
        /\ Query(p, c)
        /\ Begin(c)
    /\ Goto(p, "revert_get")
    /\ UNCHANGED <<inventory_id_seq, history_id_seq, loc>>

\* SELECT tool_id, event_type FROM tool_maintenance_history WHERE history_id = $1
revert_get(p) ==
    /\ pc[p] = "revert_get"
    /\ \E c \in Pool :
        LET rows == Lookup(HistOn(c), loc[p].historyId)
        IN /\ Query(p, c)
           /\ loc' = [loc EXCEPT ![p].record = rows]
           /\ Goto(p, IF rows = <<>> THEN "revert_notfound" ELSE "revert_delete")
    /\ UNCHANGED <<db_vars, inventory_id_seq, history_id_seq>>

\* await db.query('ROLLBACK'); return res.status(404)
revert_notfound(p) ==
    /\ pc[p] = "revert_notfound"
    /\ \E c \in Pool :
        /\ Query(p, c)
        /\ Rollback(c)
    /\ Respond(p, [NoResponse EXCEPT !.code = 404])
    /\ UNCHANGED <<inventory_id_seq, history_id_seq, loc>>

\* DELETE FROM tool_maintenance_history WHERE history_id = $1
revert_delete(p) ==
    /\ pc[p] = "revert_delete"
    /\ \E c \in Pool :
        LET h == loc[p].historyId
            hist == HistOn(c)
        IN /\ Query(p, c)
           /\ IF h \in DOMAIN hist
              THEN WriteHist(c, [k \in DOMAIN hist \ {h} |-> hist[k]], {h})
              ELSE UNCHANGED db_vars
    /\ Goto(p, "revert_current")
    /\ UNCHANGED <<inventory_id_seq, history_id_seq, loc>>

\* Lines 1027-1029: the count after the decrement, floored at zero.
NewCount(event_type, currentData) ==
    IF event_type = REGRINDING
    THEN Max({0, currentData.number_of_regrinding - 1})
    ELSE Max({0, currentData.number_of_resegmentation - 1})

\* A faulty variant of ShouldRevertStatus: the status is reverted whenever it
\* is the sentinel of the event type, whatever the count.  C7_StatusRevert
\* does not hold of it.
ShouldRevertStatusAnyCount(event_type, currentData) ==
    \/ /\ event_type = REGRINDING
       /\ currentData.status = SENT_REGRINDING
    \/ /\ event_type = RESEGMENTATION
       /\ currentData.status = SENT_RESEGMENTATION

\* Lines 1034-1038.
ShouldRevertStatus(event_type, currentData) ==
    \/ /\ event_type = REGRINDING
       /\ currentData.status = SENT_REGRINDING
       /\ NewCount(event_type, currentData) = 0
    \/ /\ event_type = RESEGMENTATION
       /\ currentData.status = SENT_RESEGMENTATION
       /\ NewCount(event_type, currentData) = 0

\* SELECT * FROM centralized_inventory WHERE tool_id = $1
revert_current(p) ==
    /\ pc[p] = "revert_current"
    /\ \E c \in Pool :
        LET rows == Lookup(InvOn(c), loc[p].record[1].tool_id)
        IN /\ Query(p, c)
           /\ IF rows = <<>>
              THEN /\ Goto(p, "revert_toolmissing")
                   /\ UNCHANGED loc
              ELSE /\ loc' = [loc EXCEPT
                                ![p].currentTool = rows,
                                ![p].shouldRevertStatus =
                                    ShouldRevertStatus(loc[p].record[1].event_type, rows[1])]
                   /\ Goto(p, "revert_decrement")
    /\ UNCHANGED <<db_vars, inventory_id_seq, history_id_seq>>

revert_toolmissing(p) ==
    /\ pc[p] = "revert_toolmissing"
    /\ \E c \in Pool :
        /\ Query(p, c)
        /\ Rollback(c)
    /\ Respond(p, [NoResponse EXCEPT !.code = 404])
    /\ UNCHANGED <<inventory_id_seq, history_id_seq, loc>>

\* A faulty variant of Decrement: the counter of the other event type is
\* decremented.  C5_ApplyThenReverse does not hold of it.
DecrementOtherCounter(row, event_type, shouldRevertStatus) ==
    LET countField == IF event_type = REGRINDING
                      THEN "number_of_resegmentation" ELSE "number_of_regrinding"
    IN SetFields(row, (countField :> row[countField] - 1)
                      @@ (IF shouldRevertStatus THEN ("status" :> RUNNING) ELSE EmptyTable))

\* Lines 1025, 1039-1048:
\* UPDATE centralized_inventory SET <countField> = <countField> - 1 [, status = 'running']
\* WHERE tool_id = $1
Decrement(row, event_type, shouldRevertStatus) ==
    LET countField == IF event_type = REGRINDING
                      THEN "number_of_regrinding" ELSE "number_of_resegmentation"
    IN SetFields(row, (countField :> row[countField] - 1)
                      @@ (IF shouldRevertStatus THEN ("status" :> RUNNING) ELSE EmptyTable))

revert_decrement(p) ==
    /\ pc[p] = "revert_decrement"
    /\ \E c \in Pool :
        LET id == loc[p].record[1].tool_id
            rows == Lookup(InvOn(c), id)
        IN /\ Query(p, c)
           /\ IF rows = <<>>
              THEN UNCHANGED db_vars
              ELSE WriteInv(c, [InvOn(c) EXCEPT ![id] =
                                   Decrement(rows[1], loc[p].record[1].event_type,
                                             loc[p].shouldRevertStatus)], {id})
    /\ Goto(p, "revert_commit")
    /\ UNCHANGED <<inventory_id_seq, history_id_seq, loc>>

revert_commit(p) ==
    /\ pc[p] = "revert_commit"
    /\ \E c \in Pool :
        /\ Query(p, c)
        /\ Commit(c)
    /\ Respond(p, [NoResponse EXCEPT !.code = 200,
                                     !.statusReverted = loc[p].shouldRevertStatus])
    /\ UNCHANGED <<inventory_id_seq, history_id_seq, loc>>

\* ------------------------------------------------- createHistoricalTools
\* The request bodies enumerated: tools[] of 1..MaxBatch tools, each with a
\* current_tool_life and up to MaxEvents lifecycle_events
\* {event_type, life_value, date, sequence}; sequence = 0 is an event without
\* one, date = 0 an event without a date.  The fields of an 'initial' event
\* are never read; it is dated the first day.  Dates are calendar days of the
\* server, counted from the first day of the imported history.
LifecycleEventsOf(lives, dates, sequences) ==
    {[event_type |-> INITIAL, life_value |-> 0,
      date |-> CHOOSE d \in dates : \A e \in dates : d <= e, sequence |-> 0]}
    \cup [ event_type : {REGRINDING, RESEGMENTATION},
           life_value : lives,
           date : dates,
           sequence : sequences ]

LifecycleEvents == LifecycleEventsOf(1..MaxImportLife, {1}, 0..MaxImportSequence)

SeqsUpTo(S, n) == UNION {[1..k -> S] : k \in 0..n}

\* A tool of the request body whose required fields are all there; the caller
\* is a BusinessAdmin, who names the factory in the body.
ImportTool(current_tool_life, lifecycle_events) ==
    [ material_id |-> 1, batch_id |-> "B1", tool_name |-> "T1", type |-> "cutting",
      current_factory_id |-> 1,
      current_tool_life |-> current_tool_life,
      lifecycle_events |-> lifecycle_events ]

ImportTools ==
    { ImportTool(life, events) :
        life \in 0..MaxImportLife, events \in SeqsUpTo(LifecycleEvents, MaxEvents) }

ImportBodies == UNION {[1..k -> ImportTools] : k \in 1..MaxBatch}

\* The rows of the factories table, which no handler modelled here writes.
Factories == {1, 2}

\* Lines 379-420: the error that rejects a tool before its first statement,
\* "" when there is none.  A field that is 0 or "" is a field that is absent.
ValidationError(tool) ==
    IF tool.material_id = 0 \/ tool.batch_id = "" \/ tool.tool_name = "" \/ tool.type = ""
    THEN "Missing required fields: material_id, batch_id, tool_name, and type are required."
    ELSE IF tool.material_id <= 0
    THEN "Material ID must be a positive number."
    ELSE IF tool.type \notin {"cutting", "creasing", "embossing"}
    THEN "Invalid type. Must be one of: cutting, creasing, embossing."
    ELSE IF tool.current_factory_id = 0
    THEN "BusinessAdmin must specify current_factory_id."
    ELSE ""

\* Lines 444-449.
CountEvents(lifecycle_events, event_type) ==
    Cardinality({k \in DOMAIN lifecycle_events :
                    lifecycle_events[k].event_type = event_type})

\* A faulty variant of NextEvent: 'initial' events are not skipped.
\* C12_ImportWritesLedger does not hold of it.
NextEventInitialToo(lifecycle_events, j) == j

\* Lines 511-516: the next event at or after position j that is not 'initial'
\* (Len + 1 when the loop is over).
NextEvent(lifecycle_events, j) ==
    LET S == {k \in j..Len(lifecycle_events) : lifecycle_events[k].event_type # INITIAL}
    IN IF S = {} THEN Len(lifecycle_events) + 1
       ELSE CHOOSE k \in S : \A m \in S : k <= m

\* Line 517 and 560-563: the calendar day of `date ? new Date(date) : new Date()`.
\* The import runs after the history it imports.
Today == MaxSummaryDate + 1

SummaryDate(date) == IF date # 0 THEN date ELSE Today

\* A faulty variant of UpsertDailySummary: on a conflict the row is
\* overwritten with the new values.  C16_RollupIsAdditive does not hold of it.
UpsertDailySummaryOverwrite(tbl, key, total_ts_revolutions, total_hlp_run) ==
    (key :> [ total_ts_revolutions |-> total_ts_revolutions,
              total_hlp_run |-> total_hlp_run ]) @@ tbl

\* A faulty variant of UpsertDailySummary: ON CONFLICT DO NOTHING.
\* C17_ConcurrentMerges does not hold of it.
UpsertDailySummaryDoNothing(tbl, key, total_ts_revolutions, total_hlp_run) ==
    tbl @@ (key :> [ total_ts_revolutions |-> total_ts_revolutions,
                     total_hlp_run |-> total_hlp_run ])

\* Lines 546-559: INSERT INTO daily_tool_summary ... ON CONFLICT (tool_id,
\* machine_id, summary_date) DO UPDATE SET each total = its value + EXCLUDED's.
UpsertDailySummary(tbl, key, total_ts_revolutions, total_hlp_run) ==
    IF key \in DOMAIN tbl
    THEN [tbl EXCEPT ![key] =
            [ total_ts_revolutions |-> @.total_ts_revolutions + total_ts_revolutions,
              total_hlp_run |-> @.total_hlp_run + total_hlp_run ]]
    ELSE (key :> [ total_ts_revolutions |-> total_ts_revolutions,
                   total_hlp_run |-> total_hlp_run ]) @@ tbl

createHistoricalTools(p, bodies) ==
    \E tools \in bodies :
        Receive(p, "createHistoricalTools", "import_next",
                [NoLocals EXCEPT !.handler = "createHistoricalTools",
                                 !.tools = tools,
                                 !.i = 1])

\* Lines 601-612: the response once every tool of the batch was processed.
ImportResponse(success, errors) ==
    [NoResponse EXCEPT
        !.code = IF errors > 0 THEN (IF success > 0 THEN 207 ELSE 400) ELSE 201,
        !.successful = success,
        !.failed = errors]

\* Lines 377-420: the first tool at or after position i that validation lets
\* through (Len + 1 when there is none).
RECURSIVE FirstValid(_, _)
FirstValid(tools, i) ==
    IF i > Len(tools) \/ ValidationError(tools[i]) = "" THEN i
    ELSE FirstValid(tools, i + 1)

\* The loop over tools from position i up to its next await: every tool that
\* validation rejects is pushed to results.errors, and the loop goes on to the
\* factory check of the first tool that passes, or to the response.
Loop(p, i, success, errors) ==
    LET tools == loc[p].tools
        k == FirstValid(tools, i)
        rejected == [n \in 1..(k - i) |->
                        [row |-> i + n - 1, error |-> ValidationError(tools[i + n - 1])]]
        results == [success |-> success, errors |-> errors \o rejected]
    IN /\ loc' = [loc EXCEPT ![p].i = k, ![p].newTool = <<>>,
                             ![p].success = results.success,
                             ![p].errors = results.errors]
       /\ IF k > Len(tools)
          THEN Respond(p, ImportResponse(Len(results.success), Len(results.errors)))
          ELSE Goto(p, "import_factory")

\* A faulty variant of NextTool: the batch ends with the first tool that got
\* as far as its factory check.  C14_BatchOutcomes does not hold of it.
NextToolAbort(p, success, errors) ==
    /\ loc' = [loc EXCEPT ![p].success = success, ![p].errors = errors]
    /\ Respond(p, ImportResponse(Len(success), Len(errors)))

\* The end of one iteration of the loop over tools.
NextTool(p, success, errors) == Loop(p, loc[p].i + 1, success, errors)

\* The handler is called: lines 361-376.
import_next(p) ==
    /\ pc[p] = "import_next"
    /\ Loop(p, 1, <<>>, <<>>)
    /\ UNCHANGED <<db_vars, inventory_id_seq, history_id_seq, lastConn, before, nreq,
                    status_vars>>

\* Lines 421-433: SELECT factory_id FROM factories WHERE factory_id = $1
import_factory(p) ==
    /\ pc[p] = "import_factory"
    /\ \E c \in Pool :
        /\ Query(p, c)
        /\ IF loc[p].tools[loc[p].i].current_factory_id \in Factories
           THEN /\ Goto(p, "import_begin")
                /\ UNCHANGED loc
           ELSE NextTool(p, loc[p].success,
                         Append(loc[p].errors,
                                [row |-> loc[p].i, error |-> "Invalid factory_id"]))
    /\ UNCHANGED <<db_vars, inventory_id_seq, history_id_seq>>

import_begin(p) ==
    /\ pc[p] = "import_begin"
    /\ \E c \in Pool :
        /\ Query(p, c)
        /\ Begin(c)
    /\ Goto(p, "import_insert")
    /\ UNCHANGED <<inventory_id_seq, history_id_seq, loc>>

\* Lines 443-497: INSERT INTO centralized_inventory, with current_tool_life
\* and baseline_tool_life both set to the request's current_tool_life.
import_insert(p) ==
    /\ pc[p] = "import_insert"
    /\ \E c \in Pool :
        LET id == inventory_id_seq
            tool == loc[p].tools[loc[p].i]
            toolLife == tool.current_tool_life
            newTool == NewTool(id, NOT_IN_USE, toolLife,
                               CountEvents(tool.lifecycle_events, REGRINDING),
                               CountEvents(tool.lifecycle_events, RESEGMENTATION),
                               tool.current_factory_id)
            j == NextEvent(tool.lifecycle_events, 1)
        IN /\ Query(p, c)
           /\ WriteInv(c, (id :> newTool) @@ InvOn(c), {id})
           /\ inventory_id_seq' = id + 1
           /\ loc' = [loc EXCEPT ![p].newTool = <<newTool>>,
                                 ![p].j = j,
                                 ![p].previousLifeValue = 0,
                                 ![p].eventsInserted = 0]
           /\ Goto(p, IF j > Len(tool.lifecycle_events)
                      THEN "import_commit" ELSE "import_event")
    /\ UNCHANGED history_id_seq

\* Lines 517-542: INSERT INTO tool_maintenance_history for
\* lifecycle_events[j], with event_sequence = sequence || 1.
import_event(p) ==
    /\ pc[p] = "import_event"
    /\ \E c \in Pool :
        LET h == history_id_seq
            events == loc[p].tools[loc[p].i].lifecycle_events
            event == events[loc[p].j]
            currentLifeValue == event.life_value
            lifeConsumed == currentLifeValue - loc[p].previousLifeValue
            eventDate == IF event.date # 0 THEN event.date ELSE CurrentTimestamp(h)
            rec == HistoryRecord(loc[p].newTool[1].tool_id, event.event_type,
                                 currentLifeValue, lifeConsumed,
                                 IF event.sequence # 0 THEN event.sequence ELSE 1,
                                 eventDate)
        IN /\ Query(p, c)
           /\ WriteHist(c, (h :> rec) @@ HistOn(c), {h})
           /\ history_id_seq' = h + 1
    /\ Goto(p, "import_rollup")
    /\ UNCHANGED <<inventory_id_seq, loc>>

\* Lines 543-573: the upsert of daily_tool_summary for lifecycle_events[j],
\* under machine 1, and the end of the iteration of the loop over events.
import_rollup(p) ==
    /\ pc[p] = "import_rollup"
    /\ \E c \in Pool :
        LET events == loc[p].tools[loc[p].i].lifecycle_events
            event == events[loc[p].j]
            currentLifeValue == event.life_value
            lifeGained == currentLifeValue - loc[p].previousLifeValue
            key == <<loc[p].newTool[1].tool_id, 1, SummaryDate(event.date)>>
            j == NextEvent(events, loc[p].j + 1)
        IN /\ Query(p, c)
           /\ WriteSum(c, UpsertDailySummary(SumOn(c), key, lifeGained, 0), {key})
           /\ loc' = [loc EXCEPT ![p].j = j,
                                 ![p].previousLifeValue = currentLifeValue,
                                 ![p].eventsInserted = @ + 1]
           /\ Goto(p, IF j > Len(events) THEN "import_commit" ELSE "import_event")
    /\ UNCHANGED <<inventory_id_seq, history_id_seq>>

\* Lines 576-585: COMMIT and results.success.push.
import_commit(p) ==
    /\ pc[p] = "import_commit"
    /\ \E c \in Pool :
        /\ Query(p, c)
        /\ Commit(c)
    /\ NextTool(p, Append(loc[p].success,
                          [row |-> loc[p].i, tool_id |-> loc[p].newTool[1].tool_id,
                           events_imported |-> loc[p].eventsInserted]),
                loc[p].errors)
    /\ UNCHANGED <<inventory_id_seq, history_id_seq>>

\* A faulty variant of import_rollback: the catch block does not run ROLLBACK.
\* C15_FailedLeavesNothing does not hold of it.
import_rollbackSkipped(p) ==
    /\ pc[p] = "import_rollback"
    /\ \E c \in Pool : Query(p, c)
    /\ NextTool(p, loc[p].success,
                Append(loc[p].errors, [row |-> loc[p].i, error |-> "transactionError"]))
    /\ UNCHANGED <<db_vars, inventory_id_seq, history_id_seq>>

\* Lines 586-599: ROLLBACK, results.errors.push, and on to the next tool.
import_rollback(p) ==
    /\ pc[p] = "import_rollback"
    /\ \E c \in Pool :
        /\ Query(p, c)
        /\ Rollback(c)
    /\ NextTool(p, loc[p].success,
                Append(loc[p].errors, [row |-> loc[p].i, error |-> "transactionError"]))
    /\ UNCHANGED <<inventory_id_seq, history_id_seq>>

\* Lines 423 and 435, 592-599: the factory check or BEGIN is rejected; the
\* outer catch block pushes to results.errors, without a ROLLBACK.
import_throws(p) ==
    /\ pc[p] \in {"import_factory", "import_begin"}
    /\ NextTool(p, loc[p].success,
                Append(loc[p].errors, [row |-> loc[p].i, error |-> "toolError"]))
    /\ UNCHANGED <<db_vars, inventory_id_seq, history_id_seq, lastConn, before, nreq,
                    status_vars>>

\* ------------------------------------------------- errors
\* A statement of the handler's try block is rejected and db.query throws:
\* the catch block runs ROLLBACK and the request is answered 500.
InTry ==
    { "create_insert", "create_commit",
      "update_update", "update_sequence", "update_last", "update_insert", "update_commit",
      "delete_update", "delete_history", "delete_commit",
      "revert_get", "revert_delete", "revert_current", "revert_decrement", "revert_commit" }

ImportTry == {"import_insert", "import_event", "import_rollup", "import_commit"}

queryThrows(p) ==
    /\ pc[p] \in InTry \cup ImportTry
    /\ Goto(p, IF pc[p] \in ImportTry THEN "import_rollback" ELSE "rollback")
    /\ UNCHANGED <<db_vars, inventory_id_seq, history_id_seq, lastConn, loc, before, nreq,
                    status_vars>>

\* await db.query('ROLLBACK') of the catch block
rollback(p) ==
    /\ pc[p] = "rollback"
    /\ \E c \in Pool :
        /\ Query(p, c)
        /\ Rollback(c)
    /\ Respond(p, [NoResponse EXCEPT !.code = 500])
    /\ UNCHANGED <<inventory_id_seq, history_id_seq, loc>>

\* ------------------------------------------------- specifications
createSteps(p) ==
    create_begin(p) \/ create_insert(p) \/ create_commit(p)

importSteps(p) ==
    \/ import_next(p) \/ import_factory(p) \/ import_begin(p)
    \/ import_insert(p) \/ import_event(p) \/ import_rollup(p)
    \/ import_commit(p) \/ import_rollback(p) \/ import_throws(p)

updateSteps(p) ==
    \/ update_select(p) \/ update_begin(p) \/ update_update(p)
    \/ update_sequence(p) \/ update_last(p) \/ update_insert(p) \/ update_commit(p)

deleteSteps(p) ==
    \/ delete_select(p) \/ delete_begin(p) \/ delete_update(p)
    \/ delete_history(p) \/ delete_commit(p)

revertSteps(p) ==
    \/ revert_begin(p) \/ revert_get(p) \/ revert_notfound(p) \/ revert_delete(p)
    \/ revert_current(p) \/ revert_decrement(p) \/ revert_commit(p)

errorSteps(p) ==
    queryThrows(p) \/ rollback(p)

\* The request bodies of PUT /tools/:inventoryId that are enumerated.
UpdateStatuses == {RUNNING, SENT_REGRINDING, SENT_RESEGMENTATION}
UpdateLives == 0..MaxLifeConsumed

\* One client that sends its next request when it has the answer to the last:
\* at most one request is in flight.
Next ==
    \/ /\ \A q \in Procs : pc[q] = "idle"
       /\ \/ createInventoryTool(1)
          \/ createHistoricalTools(1, ImportBodies)
          \/ updateInventoryTool(1, UpdateStatuses, UpdateLives)
          \/ deleteInventoryTool(1)
          \/ deleteMaintenanceHistory(1)
    \/ \E p \in Procs :
        \/ createSteps(p) \/ importSteps(p) \/ updateSteps(p)
        \/ deleteSteps(p) \/ revertSteps(p) \/ errorSteps(p)
        \/ Return(p)

Spec == Init /\ [][Next]_vars

\* Concurrent requests start from a database that earlier requests left
\* behind.  AfterEvent is the database after createInventoryTool (no counts
\* given) and one regrinding event with life_consumed = 1.  AfterFailedImport
\* is that database after an import whose ledger INSERT was committed while
\* its tool INSERT was rolled back: ledger entry 2 belongs to tool 2, which
\* does not exist.
AfterEvent ==
    /\ centralized_inventory =
         (1 :> [NewTool(1, SENT_REGRINDING, DefaultToolLife, 1, 0, 1)
                   EXCEPT !.current_tool_life = 1])
    /\ tool_maintenance_history =
         (1 :> HistoryRecord(1, REGRINDING, 1, 1, 1, CurrentTimestamp(1)))
    /\ daily_tool_summary = EmptyTable
    /\ inventory_id_seq = 2
    /\ history_id_seq = 2
    /\ last = [history_id |-> 1, tool |-> <<NewTool(1, NOT_IN_USE, DefaultToolLife, 0, 0, 1)>>]

AfterFailedImport ==
    /\ centralized_inventory =
         (1 :> [NewTool(1, SENT_REGRINDING, DefaultToolLife, 1, 0, 1)
                   EXCEPT !.current_tool_life = 1])
    /\ tool_maintenance_history =
         (1 :> HistoryRecord(1, REGRINDING, 1, 1, 1, CurrentTimestamp(1)))
         @@ (2 :> HistoryRecord(2, REGRINDING, 1, 1, 1, 1))
    /\ daily_tool_summary = EmptyTable
    /\ inventory_id_seq = 3
    /\ history_id_seq = 3
    /\ last = NoEvent

NoRequests ==
    /\ conn = [c \in Pool |-> NoTransaction]
    /\ lastConn = 1
    /\ pc = [p \in Procs |-> "idle"]
    /\ loc = [p \in Procs |-> NoLocals]
    /\ res = [p \in Procs |-> NoResponse]
    /\ before = [p \in Procs |-> NoSnapshot]
    /\ nreq = 0
    /\ drive_status = <<>>
    /\ resolved = NoRows
    /\ change_log = EmptyTable

InitConcurrent == (AfterEvent \/ AfterFailedImport) /\ NoRequests

\* The requests that arrive concurrently: status changes of tool 1,
\* reversals, and the import of one tool with one regrinding event.
ConcurrentStatuses == {RUNNING, SENT_RESEGMENTATION}
ConcurrentLives == {0, 1}
ConcurrentImports ==
    { << ImportTool(1, << [ event_type |-> REGRINDING, life_value |-> 1,
                            date |-> 1, sequence |-> 1 ] >>) >> }

NextConcurrent ==
    \E p \in Procs :
        \/ /\ nreq < MaxConcurrentRequests
           /\ \/ createHistoricalTools(p, ConcurrentImports)
              \/ updateInventoryTool(p, ConcurrentStatuses, ConcurrentLives)
              \/ deleteMaintenanceHistory(p)
        \/ importSteps(p) \/ updateSteps(p) \/ revertSteps(p)
        \/ revert_toolmissing(p)
        \/ errorSteps(p)
        \/ Return(p)

SpecConcurrent == InitConcurrent /\ [][NextConcurrent]_vars

\* The concurrent requests from the first start alone.
SpecAfterEvent == AfterEvent /\ NoRequests /\ [][NextConcurrent]_vars

\* One client that imports histories.  The bodies enumerated are a single tool
\* with up to MaxHistoricalEvents dated lifecycle events, with or without a
\* sequence, and batches of up to MaxBatchTools tools, each of them a tool
\* with two events of one day, a tool with an event without a date, a tool
\* without events, or a tool that lacks a field, has a non-positive
\* material_id, a type that is none of the three, no factory, or a factory
\* that does not exist.
HistoricalEvents ==
    LifecycleEventsOf(1..MaxImportLife, 1..MaxSummaryDate, 0..MaxImportSequence)

HistoricalBodies ==
    { << ImportTool(life, events) >> :
        life \in 0..MaxImportLife,
        events \in SeqsUpTo(HistoricalEvents, MaxHistoricalEvents) }

BatchTools ==
    LET events == << [ event_type |-> REGRINDING, life_value |-> 1,
                       date |-> 1, sequence |-> 1 ],
                     [ event_type |-> RESEGMENTATION, life_value |-> 2,
                       date |-> 1, sequence |-> 1 ] >>
        tool == ImportTool(2, events)
    IN { tool,
         ImportTool(0, <<>>),
         ImportTool(1, << [ event_type |-> REGRINDING, life_value |-> 1,
                            date |-> 0, sequence |-> 0 ] >>),
         [tool EXCEPT !.material_id = 0],
         [tool EXCEPT !.material_id = -1],
         [tool EXCEPT !.batch_id = ""],
         [tool EXCEPT !.tool_name = ""],
         [tool EXCEPT !.type = ""],
         [tool EXCEPT !.type = "drilling"],
         [tool EXCEPT !.current_factory_id = 0],
         [tool EXCEPT !.current_factory_id = 3] }

BatchBodies == UNION {[1..k -> BatchTools] : k \in 2..MaxBatchTools}

NextImport ==
    \/ /\ \A q \in Procs : pc[q] = "idle"
       /\ nreq < MaxImportRequests
       /\ createHistoricalTools(1, HistoricalBodies \cup BatchBodies)
    \/ importSteps(1)
    \/ queryThrows(1)
    \/ Return(1)

SpecImport == Init /\ [][NextImport]_vars

\* The rollup merge under concurrency.  The start is the database after the
\* import of one tool with one regrinding event of day 1.  Each request runs
\* the upsert of lines 546-571 for tool 1 and machine 1, with a day and a
\* delta of its own, through db.query; the connection it gets is in the
\* transaction that a BEGIN of line 435 opened on it and a COMMIT of line 577
\* will end, or in none.
AfterImport ==
    /\ centralized_inventory = (1 :> NewTool(1, NOT_IN_USE, 1, 1, 0, 1))
    /\ tool_maintenance_history = (1 :> HistoryRecord(1, REGRINDING, 1, 1, 1, 1))
    /\ daily_tool_summary =
         (<<1, 1, 1>> :> [total_ts_revolutions |-> 1, total_hlp_run |-> 0])
    /\ inventory_id_seq = 2
    /\ history_id_seq = 2
    /\ last = NoEvent

InitRollup == AfterImport /\ NoRequests

dailySummaryInsertQuery(p) ==
    \E day \in 1..MaxSummaryDate, lifeGained \in 1..MaxImportLife :
        Receive(p, "dailySummaryInsertQuery", "summary_upsert",
                [NoLocals EXCEPT !.handler = "dailySummaryInsertQuery",
                                 !.summaryKey = <<1, 1, day>>,
                                 !.lifeGained = lifeGained])

\* An open transaction is the transaction of an import in flight: while
\* there is one, a statement can get any connection of the pool.
SummaryPoolQuery(p) ==
    IF \E d \in Pool : conn[d].inTxn THEN Pool ELSE PoolQuery(p)

summary_upsert(p) ==
    /\ pc[p] = "summary_upsert"
    /\ \E c \in Pool :
        /\ c \in SummaryPoolQuery(p)
        /\ lastConn' = c
        /\ UNCHANGED <<before, nreq, status_vars>>
        /\ WriteSum(c, UpsertDailySummary(SumOn(c), loc[p].summaryKey,
                                          loc[p].lifeGained, 0),
                    {loc[p].summaryKey})
    /\ Respond(p, [NoResponse EXCEPT !.code = 201])
    /\ UNCHANGED <<inventory_id_seq, history_id_seq, loc>>

\* BEGIN and COMMIT of the transaction a connection is in.
summary_begin(c) ==
    /\ ~conn[c].inTxn
    /\ Begin(c)
    /\ UNCHANGED <<inventory_id_seq, history_id_seq, lastConn, pc, loc, res, before,
                    last, nreq, status_vars>>

summary_commit(c) ==
    /\ conn[c].inTxn
    /\ Commit(c)
    /\ UNCHANGED <<inventory_id_seq, history_id_seq, lastConn, pc, loc, res, before,
                    last, nreq, status_vars>>

NextRollup ==
    \/ \E p \in Procs : dailySummaryInsertQuery(p) \/ summary_upsert(p)
    \/ \E c \in Pool : summary_begin(c) \/ summary_commit(c)

SpecRollup == InitRollup /\ [][NextRollup]_vars

\* ------------------------------------------------- requests of a UnitAdmin
\* The database holds a tool of factory 1 and a tool of factory 2, each in
\* the regrinding sentinel status after one regrinding event that consumed
\* life 1, and every request comes from a UnitAdmin of factory 1, one
\* request at a time.
AfterTwoFactories ==
    /\ centralized_inventory =
         (1 :> [NewTool(1, SENT_REGRINDING, DefaultToolLife, 1, 0, 1)
                   EXCEPT !.current_tool_life = 1])
         @@ (2 :> [NewTool(2, SENT_REGRINDING, DefaultToolLife, 1, 0, 2)
                      EXCEPT !.current_tool_life = 1])
    /\ tool_maintenance_history =
         (1 :> HistoryRecord(1, REGRINDING, 1, 1, 1, CurrentTimestamp(1)))
         @@ (2 :> HistoryRecord(2, REGRINDING, 1, 1, 1, CurrentTimestamp(2)))
    /\ daily_tool_summary = EmptyTable
    /\ inventory_id_seq = 3
    /\ history_id_seq = 3
    /\ last = NoEvent

InitFactory == AfterTwoFactories /\ NoRequests

\* A request of the caller `user`.
ReceiveAs(p, user, handler, first, locals) ==
    Receive(p, handler, first, [locals EXCEPT !.handler = handler, !.user = user])

\* POST /tools: the body names factory 2 or none.
unitAdminCreates(p, user) ==
    \E factory \in {0, 2} :
        ReceiveAs(p, user, "createInventoryTool", "create_begin",
                  [NoLocals EXCEPT !.current_factory_id = factory])

\* POST /tools/import-historical: one tool with one event, for factory 2 or
\* none; lines 405-409 replace the factory of the body with the caller's.
unitAdminImports(p, user) ==
    \E factory \in {0, 2} :
        LET event == [ event_type |-> REGRINDING, life_value |-> 1,
                       date |-> 1, sequence |-> 1 ]
            tool == [ImportTool(1, <<event>>) EXCEPT
                        !.current_factory_id = FactoryId(user, factory)]
        IN ReceiveAs(p, user, "createHistoricalTools", "import_next",
                     [NoLocals EXCEPT !.tools = <<tool>>, !.i = 1])

\* PUT /tools/:inventoryId with a status, a factory, or both.
unitAdminUpdates(p, user) ==
    \E id \in DOMAIN centralized_inventory,
       status \in {"", RUNNING, SENT_RESEGMENTATION}, factory \in {0, 2} :
        ReceiveAs(p, user, "updateInventoryTool", "update_select",
                  [NoLocals EXCEPT !.inventoryId = id,
                                   !.status = status,
                                   !.current_factory_id = factory])

\* DELETE /tools/:inventoryId
unitAdminDeletes(p, user) ==
    \E id \in DOMAIN centralized_inventory :
        ReceiveAs(p, user, "deleteInventoryTool", "delete_select",
                  [NoLocals EXCEPT !.inventoryId = id])

\* DELETE /maintenance-history/:historyId, of an entry or of the next id
unitAdminReverses(p, user) ==
    \E h \in 1..history_id_seq :
        ReceiveAs(p, user, "deleteMaintenanceHistory", "revert_begin",
                  [NoLocals EXCEPT !.historyId = h])

NextFactory ==
    \/ /\ \A q \in Procs : pc[q] = "idle"
       /\ \/ unitAdminCreates(1, UnitAdmin(1))
          \/ unitAdminImports(1, UnitAdmin(1))
          \/ unitAdminUpdates(1, UnitAdmin(1))
          \/ unitAdminDeletes(1, UnitAdmin(1))
          \/ unitAdminReverses(1, UnitAdmin(1))
    \/ \E p \in Procs :
        \/ createSteps(p) \/ importSteps(p) \/ updateSteps(p)
        \/ deleteSteps(p) \/ revertSteps(p) \/ errorSteps(p)
        \/ Return(p)

SpecFactory == InitFactory /\ [][NextFactory]_vars

\* ------------------------------------------------- getInventoryHistory
\* GET /tools/:inventoryId/history, lines 906-953.  In this part timestamps
\* are counted in ticks of which MillisecondTicks make a millisecond.
MillisecondTicks == 4

\* ts::timestamptz(3): the timestamp rounded to milliseconds, halves upwards.
Timestamptz3(ts) ==
    ((ts + MillisecondTicks \div 2) \div MillisecondTicks) * MillisecondTicks

\* get_inventory_change_history($1): the audit entries of the tool.
get_inventory_change_history(log, inventoryId) ==
    {l \in DOMAIN log : log[l].inventory_id = inventoryId}

\* The join condition with its first conjunct left out.
JoinConditionAnyField(cl, tmh, toolId) ==
    /\ tmh.tool_id = toolId
    /\ Timestamptz3(tmh.timestamp) = Timestamptz3(cl.change_timestamp)

\* ON cl.field_changed = 'status' AND tmh.tool_id = $2
\*    AND tmh.timestamp::timestamptz(3) = cl.change_timestamp::timestamptz(3)
JoinCondition(cl, tmh, toolId) ==
    /\ cl.field_changed = "status"
    /\ tmh.tool_id = toolId
    /\ Timestamptz3(tmh.timestamp) = Timestamptz3(cl.change_timestamp)

\* SQL NULL in the column maintenance_history_id.
NULL == 0

\* FROM get_inventory_change_history($1) cl LEFT JOIN tool_maintenance_history
\* tmh ON ...: one row per pair that meets the condition, and one row with
\* NULL for an audit entry that no ledger entry meets it with.  A row has the
\* columns of the audit entry and the history_id.
LeftJoin(log, hist, inventoryId, toolId) ==
    LET HistoryRow(l, history_id) ==
            [ log_id |-> l,
              change_timestamp |-> log[l].change_timestamp,
              field_changed |-> log[l].field_changed,
              old_value |-> log[l].old_value,
              new_value |-> log[l].new_value,
              maintenance_history_id |-> history_id ]
    IN UNION { LET matched == {h \in DOMAIN hist :
                                 JoinCondition(log[l], hist[h], toolId)}
               IN IF matched = {} THEN {HistoryRow(l, NULL)}
                  ELSE {HistoryRow(l, h) : h \in matched}
               : l \in get_inventory_change_history(log, inventoryId) }

\* The table factories as the handler reads it: String(factory_id) |-> name.
factoryMap == [f \in {"1", "2"} |-> "Factory " \o f]

\* Lines 936-946: factory ids replaced by factory names,
\* factoryMap.get(value) || `ID: ${value}`.
processedRows(rows) ==
    LET FactoryName(value) ==
            IF value \in DOMAIN factoryMap THEN factoryMap[value]
            ELSE "ID: " \o value
    IN
    { IF row.field_changed = "current_factory_id"
      THEN [row EXCEPT !.old_value = FactoryName(row.old_value),
                       !.new_value = FactoryName(row.new_value)]
      ELSE row : row \in rows }

getInventoryHistory(p) ==
    \E id \in 1..(MaxTools + 1) :
        Receive(p, "getInventoryHistory", "history_select",
                [NoLocals EXCEPT !.handler = "getInventoryHistory",
                                 !.inventoryId = id])

\* SELECT tool_id FROM centralized_inventory WHERE inventory_id = $1
history_select(p) ==
    /\ pc[p] = "history_select"
    /\ \E c \in Pool :
        LET rows == Lookup(InvOn(c), loc[p].inventoryId)
        IN /\ Query(p, c)
           /\ IF rows = <<>>
              THEN /\ Respond(p, [NoResponse EXCEPT !.code = 404])
                   /\ UNCHANGED loc
              ELSE /\ loc' = [loc EXCEPT ![p].currentTool = rows]
                   /\ Goto(p, "history_join")
    /\ UNCHANGED <<db_vars, inventory_id_seq, history_id_seq>>

\* The query of lines 915-931.
history_join(p) ==
    /\ pc[p] = "history_join"
    /\ \E c \in Pool :
        /\ Query(p, c)
        /\ loc' = [loc EXCEPT ![p].rows =
                      LeftJoin(change_log, HistOn(c), loc[p].inventoryId,
                               loc[p].currentTool[1].tool_id)]
    /\ Goto(p, "history_factories")
    /\ UNCHANGED <<db_vars, inventory_id_seq, history_id_seq>>

\* SELECT factory_id, name FROM factories, and the response.
history_factories(p) ==
    /\ pc[p] = "history_factories"
    /\ \E c \in Pool : Query(p, c)
    /\ Respond(p, [NoResponse EXCEPT !.code = 200,
                                     !.rows = processedRows(loc[p].rows)])
    /\ UNCHANGED <<db_vars, inventory_id_seq, history_id_seq, loc>>

\* A query of the handler throws: the catch block of lines 949-952.
history_throws(p) ==
    /\ pc[p] \in {"history_select", "history_join", "history_factories"}
    /\ Respond(p, [NoResponse EXCEPT !.code = 500])
    /\ UNCHANGED <<db_vars, inventory_id_seq, history_id_seq, lastConn, loc,
                    before, nreq, status_vars>>

\* The histories that are enumerated: two tools, a ledger of up to MaxLedger
\* regrinding events and an audit trail of up to MaxChanges entries, with
\* timestamps among HistoryTicks (two of them in the same millisecond).
MaxLedger == 2
MaxChanges == 2
MaxHistoryRequests == 1
HistoryTicks == {1, 2, 5}

\* The ledger of the events `events` (pairs of tool and timestamp): each
\* entry numbered within its tool.
LedgerOf(events) ==
    [ h \in DOMAIN events |->
        HistoryRecord(events[h][1], REGRINDING, DefaultToolLife, 0,
                      Cardinality({g \in 1..h : events[g][1] = events[h][1]}),
                      events[h][2]) ]

\* What the audit trigger writes: a status change, or a move to a factory
\* that exists or to one that does not exist any more.
ChangeEntries ==
    [ inventory_id : 1..MaxTools, field_changed : {"status"},
      change_timestamp : HistoryTicks,
      old_value : {RUNNING}, new_value : {SENT_REGRINDING} ]
    \cup
    [ inventory_id : 1..MaxTools, field_changed : {"current_factory_id"},
      change_timestamp : HistoryTicks,
      old_value : {"1"}, new_value : {"2", "3"} ]

InitHistory ==
    /\ \E n \in 0..MaxLedger :
        \E events \in [1..n -> (1..MaxTools) \X HistoryTicks] :
            /\ tool_maintenance_history = LedgerOf(events)
            /\ centralized_inventory =
                 [ t \in 1..MaxTools |->
                     LET count == Cardinality({h \in 1..n : events[h][1] = t})
                     IN NewTool(t, IF count = 0 THEN RUNNING ELSE SENT_REGRINDING,
                                DefaultToolLife, count, 0, 1) ]
            /\ history_id_seq = n + 1
    /\ \E m \in 0..MaxChanges : change_log \in [1..m -> ChangeEntries]
    /\ daily_tool_summary = EmptyTable
    /\ inventory_id_seq = MaxTools + 1
    /\ last = NoEvent
    /\ conn = [c \in Pool |-> NoTransaction]
    /\ lastConn = 1
    /\ pc = [p \in Procs |-> "idle"]
    /\ loc = [p \in Procs |-> NoLocals]
    /\ res = [p \in Procs |-> NoResponse]
    /\ before = [p \in Procs |-> NoSnapshot]
    /\ nreq = 0
    /\ drive_status = <<>>
    /\ resolved = NoRows

NextHistory ==
    \/ /\ nreq < MaxHistoryRequests
       /\ getInventoryHistory(1)
    \/ history_select(1)
    \/ history_join(1)
    \/ history_factories(1)
    \/ history_throws(1)
    \/ Return(1)

SpecHistory == InitHistory /\ [][NextHistory]_vars

\* ------------------------------------------------- status queries
\* src/src/routes/factoryRoutes.js.  drive_status is written by no handler of
\* the sources; the streams enumerated are all sequences of up to
\* MaxStatusRecords rows (tool_id, machine_id, status, timestamp).  Every tool
\* has a row in public.tools, of type "cutting", and every machine a row in
\* public.machines.  Each handler is one statement and reads only.
IN_DRIVE == "in_drive"
REMOVED == "removed"

Timestamps == {1, 3, 5}

StatusRecords ==
    [ tool_id : 1..MaxTools, machine_id : 1..MaxMachines,
      status : {IN_DRIVE, REMOVED}, timestamp : Timestamps ]

StatusStreams == SeqsUpTo(StatusRecords, MaxStatusRecords)

ToolTypes == {"cutting", "creasing"}

tools == [t \in 1..MaxTools |-> [tool_id |-> t, tool_type |-> "cutting"]]

\* A faulty variant of DistinctOnTool: the row kept for a tool is the one
\* inserted last.  C18_LatestPerKey does not hold of it.
DistinctOnToolLastInserted(stream, from) ==
    { [t \in {stream[n].tool_id : n \in from} |->
         Max({n \in from : stream[n].tool_id = t})] }

\* SELECT DISTINCT ON (tool_id) ... ORDER BY tool_id, timestamp DESC over the
\* rows `from` of the stream: for every tool one of its rows with the
\* greatest timestamp, any of them when several have it.  The results
\* PostgreSQL can give, each as tool_id |-> position of the row kept.
DistinctOnTool(stream, from) ==
    { latest \in [{stream[n].tool_id : n \in from} -> from] :
        \A t \in DOMAIN latest :
            /\ stream[latest[t]].tool_id = t
            /\ \A n \in from :
                 stream[n].tool_id = t => stream[n].timestamp <= stream[latest[t]].timestamp }

\* FROM public.drive_status
DriveStatus(stream) == DOMAIN stream

\* A faulty variant of DriveStatusOnMachine: the rows are filtered by status
\* before the latest is taken.  C19_FilterAfterResolution does not hold of it.
DriveStatusOnMachineInDrive(stream, machineId) ==
    {n \in DOMAIN stream : stream[n].machine_id = machineId /\ stream[n].status = IN_DRIVE}

\* FROM public.drive_status WHERE machine_id = $1
DriveStatusOnMachine(stream, machineId) ==
    {n \in DOMAIN stream : stream[n].machine_id = machineId}

\* JOIN public.tools t ON tool_id WHERE status = 'in_drive'
\* AND UPPER(t.tool_type) = UPPER($n): the tools of the CTE that pass.
InDrive(stream, latest, toolType) ==
    {t \in DOMAIN latest : /\ stream[latest[t]].status = IN_DRIVE
                           /\ t \in DOMAIN tools
                           /\ tools[t].tool_type = toolType}

\* Lines 220-266: the machines of the tools whose latest row is 'in_drive'.
getActiveMachinesByType ==
    /\ \E toolType \in ToolTypes :
        \E latest \in DistinctOnTool(drive_status, DriveStatus(drive_status)) :
            resolved' =
                [ handler |-> "getActiveMachinesByType", machineId |-> 0,
                  toolType |-> toolType, latest |-> latest,
                  rows |-> {drive_status[latest[t]].machine_id :
                               t \in InDrive(drive_status, latest, toolType)},
                  code |-> 200 ]
    /\ UNCHANGED <<db_vars, inventory_id_seq, history_id_seq, lastConn, pc, loc, res,
                    before, last, nreq, drive_status, change_log>>

\* target_tool: ... LIMIT 1, one of the tools that pass, or no row.
TargetTool(active) == IF active = {} THEN {{}} ELSE {{t} : t \in active}

\* Lines 355-368 and 390-412: the tool the intraday chart is drawn for.
getToolChartData ==
    /\ \E machineId \in 1..MaxMachines, toolType \in ToolTypes :
        \E latest \in DistinctOnTool(drive_status,
                                     DriveStatusOnMachine(drive_status, machineId)) :
            \E target \in TargetTool(InDrive(drive_status, latest, toolType)) :
                resolved' =
                    [ handler |-> "getToolChartData", machineId |-> machineId,
                      toolType |-> toolType, latest |-> latest,
                      rows |-> target, code |-> 200 ]
    /\ UNCHANGED <<db_vars, inventory_id_seq, history_id_seq, lastConn, pc, loc, res,
                    before, last, nreq, drive_status, change_log>>

\* Lines 489-544: the tool the cumulative chart is drawn for, by the same
\* CTE as the intraday chart; without a tool the answer is 200 with
\* toolName 'Unknown Tool' and no chart data.
getCumulativeChartData ==
    /\ \E machineId \in 1..MaxMachines, toolType \in ToolTypes :
        \E latest \in DistinctOnTool(drive_status,
                                     DriveStatusOnMachine(drive_status, machineId)) :
            \E target \in TargetTool(InDrive(drive_status, latest, toolType)) :
                resolved' =
                    [ handler |-> "getCumulativeChartData", machineId |-> machineId,
                      toolType |-> toolType, latest |-> latest,
                      rows |-> target, code |-> 200 ]
    /\ UNCHANGED <<db_vars, inventory_id_seq, history_id_seq, lastConn, pc, loc, res,
                    before, last, nreq, drive_status, change_log>>

\* Lines 632-650: the tool the complete history is exported for, 404 without.
getCompleteToolHistory ==
    /\ \E machineId \in 1..MaxMachines, toolType \in ToolTypes :
        \E latest \in DistinctOnTool(drive_status,
                                     DriveStatusOnMachine(drive_status, machineId)) :
            \E target \in TargetTool(InDrive(drive_status, latest, toolType)) :
                resolved' =
                    [ handler |-> "getCompleteToolHistory", machineId |-> machineId,
                      toolType |-> toolType, latest |-> latest,
                      rows |-> target, code |-> IF target = {} THEN 404 ELSE 200 ]
    /\ UNCHANGED <<db_vars, inventory_id_seq, history_id_seq, lastConn, pc, loc, res,
                    before, last, nreq, drive_status, change_log>>

InitResolver ==
    /\ centralized_inventory = EmptyTable
    /\ tool_maintenance_history = EmptyTable
    /\ daily_tool_summary = EmptyTable
    /\ inventory_id_seq = 1
    /\ history_id_seq = 1
    /\ last = NoEvent
    /\ conn = [c \in Pool |-> NoTransaction]
    /\ lastConn = 1
    /\ pc = [p \in Procs |-> "idle"]
    /\ loc = [p \in Procs |-> NoLocals]
    /\ res = [p \in Procs |-> NoResponse]
    /\ before = [p \in Procs |-> NoSnapshot]
    /\ nreq = 0
    /\ drive_status \in StatusStreams
    /\ change_log = EmptyTable
    /\ resolved = NoRows

NextResolver ==
    \/ getActiveMachinesByType
    \/ getToolChartData
    \/ getCumulativeChartData
    \/ getCompleteToolHistory

SpecResolver == InitResolver /\ [][NextResolver]_vars

\* ============================================================ properties
TypeOK == nreq \in 0..MaxRequests

\* The starts of SpecConcurrent are states the program reaches: Spec violates
\* AfterEventNotReached and SpecAfterEvent violates
\* AfterFailedImportNotReached.
Quiescent ==
    /\ conn = [c \in Pool |-> NoTransaction]
    /\ lastConn = 1
    /\ \A p \in Procs : pc[p] = "idle"

AfterEventNotReached == ~(AfterEvent /\ Quiescent)

AfterFailedImportNotReached == ~(AfterFailedImport /\ Quiescent)

EventTypes == {REGRINDING, RESEGMENTATION}

Counter(row, event_type) ==
    IF event_type = REGRINDING THEN row.number_of_regrinding
    ELSE row.number_of_resegmentation

Sentinel(event_type) ==
    IF event_type = REGRINDING THEN SENT_REGRINDING ELSE SENT_RESEGMENTATION

\* The ledger entries of a tool, all, non-deleted, and non-deleted of a type.
EntriesOf(hist, tool_id) == {h \in DOMAIN hist : hist[h].tool_id = tool_id}

LiveEntries(hist, tool_id) == {h \in EntriesOf(hist, tool_id) : ~hist[h].is_deleted}

LiveEntriesOfType(hist, tool_id, event_type) ==
    {h \in LiveEntries(hist, tool_id) : hist[h].event_type = event_type}

LifeConsumed(hist) == [h \in DOMAIN hist |-> hist[h].life_consumed]

\* C1: in every committed state reached by tool creation, maintenance
\* events, reversals, historical import and tool deletion, the current
\* tool life of every tool is its baseline tool life plus the sum of
\* life_consumed over the tool's non-deleted ledger entries.
C1_LifeIsBaselinePlusConsumed ==
    \A t \in DOMAIN centralized_inventory :
        centralized_inventory[t].current_tool_life =
            centralized_inventory[t].baseline_tool_life
            + SumOver(LifeConsumed(tool_maintenance_history),
                      LiveEntries(tool_maintenance_history, t))

\* C2: in every committed state the regrinding counter of every tool is the
\* number of its non-deleted regrinding entries, and the resegmentation
\* counter the number of its non-deleted resegmentation entries.
C2_CountersMatchLedger ==
    \A t \in DOMAIN centralized_inventory : \A e \in EventTypes :
        Counter(centralized_inventory[t], e) =
            Cardinality(LiveEntriesOfType(tool_maintenance_history, t, e))

\* The request of p is a status change that was accepted as a maintenance
\* event and answered with success.
AcceptedEvent(p) ==
    /\ pc[p] = "done"
    /\ loc[p].handler = "updateInventoryTool"
    /\ loc[p].maintenanceEvent # <<>>
    /\ res[p].code = 200

\* The ledger entries of (tool, type) that a step adds to the committed ledger.
AddedEntries(tool_id, event_type) ==
    {h \in (DOMAIN tool_maintenance_history') \ (DOMAIN tool_maintenance_history) :
        /\ tool_maintenance_history'[h].tool_id = tool_id
        /\ tool_maintenance_history'[h].event_type = event_type}

\* C3: updateInventoryTool is atomic, also when a step of it fails: the
\* committed state never gains the projection update of a maintenance event
\* without its ledger entry (a counter of an existing tool grows only in a
\* step that also adds a ledger entry of that tool and type), nor the ledger
\* entry without the projection update (the entry of an update request
\* appears only together with the sentinel status and a counter of at
\* least one).
C3_UpdateIsAtomic ==
    [][ \A t \in (DOMAIN centralized_inventory) \cap (DOMAIN centralized_inventory') :
          \A e \in EventTypes :
            /\ Counter(centralized_inventory'[t], e) > Counter(centralized_inventory[t], e)
                   => AddedEntries(t, e) # {}
            /\ \A h \in AddedEntries(t, e) :
                   (\E p \in Procs : /\ loc'[p].handler = "updateInventoryTool"
                                     /\ loc'[p].historyId = h)
                   => /\ centralized_inventory'[t].status = Sentinel(e)
                      /\ Counter(centralized_inventory'[t], e) >= 1 ]_vars

\* C4: when two requests that record a maintenance event of the same type
\* for the same tool run concurrently (neither had written its entry when
\* the other arrived) and both have completed, the counter of that type has
\* grown by exactly the number of ledger entries the two requests wrote.
C4_NoLostUpdate ==
    \A p, q \in Procs :
        ( /\ p # q
          /\ AcceptedEvent(p) /\ AcceptedEvent(q)
          /\ loc[p].inventoryId = loc[q].inventoryId
          /\ loc[p].maintenanceEvent[1].type = loc[q].maintenanceEvent[1].type
          /\ loc[q].historyId \notin DOMAIN before[p].hist
          /\ loc[p].historyId \notin DOMAIN before[q].hist
          /\ loc[p].inventoryId \in DOMAIN centralized_inventory )
        => LET t == loc[p].inventoryId
               e == loc[p].maintenanceEvent[1].type
               written == {loc[p].historyId, loc[q].historyId}
                              \cap LiveEntriesOfType(tool_maintenance_history, t, e)
           IN Counter(centralized_inventory[t], e)
                  = Counter(before[p].inv[t], e) + Cardinality(written)

\* The request of p is a reversal that was answered with success.
Reversed(p) ==
    /\ pc[p] = "done"
    /\ loc[p].handler = "deleteMaintenanceHistory"
    /\ res[p].code = 200

\* The request of p reversed the maintenance event that the request before
\* it had applied.
ReversedLast(p) ==
    /\ Reversed(p)
    /\ last.history_id = loc[p].historyId
    /\ last.tool # <<>>

\* C5: applying one maintenance event and then immediately reversing that
\* event leaves number_of_regrinding and number_of_resegmentation as they
\* were before the event, and current_tool_life as the event left it.
C5_ApplyThenReverse ==
    \A p \in Procs :
        ReversedLast(p) =>
            LET pre == last.tool[1]
                t == pre.tool_id
            IN /\ t \in DOMAIN centralized_inventory
               /\ centralized_inventory[t].number_of_regrinding = pre.number_of_regrinding
               /\ centralized_inventory[t].number_of_resegmentation
                      = pre.number_of_resegmentation
               /\ centralized_inventory[t].current_tool_life
                      = before[p].inv[t].current_tool_life

\* An event that consumed life on a tool that already had a count was
\* applied and then reversed.
C5_Witness ==
    \E p \in Procs :
        /\ ReversedLast(p)
        /\ before[p].inv[last.tool[1].tool_id].current_tool_life
               > last.tool[1].current_tool_life
        /\ last.tool[1].number_of_regrinding + last.tool[1].number_of_resegmentation > 0

\* C6: the decrement of a reversal is floored at zero: in every committed
\* state number_of_regrinding and number_of_resegmentation of every tool
\* are at least 0.
C6_CountersNonNegative ==
    \A t \in DOMAIN centralized_inventory : \A e \in EventTypes :
        Counter(centralized_inventory[t], e) >= 0

C7_WitnessOtherExists ==
    \E p \in Procs :
        /\ Reversed(p)
        /\ LET h == loc[p].historyId
               entry == before[p].hist[h]
           IN /\ before[p].inv[entry.tool_id].status = Sentinel(entry.event_type)
              /\ LiveEntriesOfType(before[p].hist, entry.tool_id, entry.event_type) # {h}

\* C8: a reversal that is answered with NotFound leaves the ledger as it
\* was: an entry that was in the ledger when the request arrived, and that
\* the request was asked to reverse, is still in the ledger (the entry of a
\* missing tool is not removed).
C8_NotFoundChangesNothing ==
    \A p \in Procs :
        ( /\ pc[p] = "done"
          /\ loc[p].handler = "deleteMaintenanceHistory"
          /\ res[p].code = 404
          /\ loc[p].historyId \in DOMAIN before[p].hist )
        => loc[p].historyId \in DOMAIN tool_maintenance_history

\* The part of C8 about a ledger entry that does not exist, for one client:
\* the committed tables are those the request found.
NotFoundEntryChangesNothing ==
    \A p \in Procs :
        ( /\ pc[p] = "done"
          /\ loc[p].handler = "deleteMaintenanceHistory"
          /\ res[p].code = 404 )
        => /\ centralized_inventory = before[p].inv
           /\ tool_maintenance_history = before[p].hist

\* C9: an accepted maintenance event of type E on tool T increments the
\* counter of E by one and leaves the other counter alone, advances
\* current_tool_life by the consumed amount, sets the status to the sentinel
\* of E, and writes exactly one new ledger entry, for T, of type E, with
\* tool_life_at_event = the updated current_tool_life.
C9_EventEffects ==
    \A p \in Procs :
        AcceptedEvent(p) =>
            LET t == loc[p].inventoryId
                e == loc[p].maintenanceEvent[1].type
                pre == before[p].inv[t]
                post == centralized_inventory[t]
                new == (DOMAIN tool_maintenance_history) \ (DOMAIN before[p].hist)
            IN /\ t \in DOMAIN centralized_inventory
               /\ Counter(post, e) = Counter(pre, e) + 1
               /\ \A o \in EventTypes \ {e} : Counter(post, o) = Counter(pre, o)
               /\ post.current_tool_life = pre.current_tool_life + loc[p].life_consumed
               /\ post.status = Sentinel(e)
               /\ Cardinality(new) = 1
               /\ \A h \in new :
                    /\ tool_maintenance_history[h].tool_id = t
                    /\ tool_maintenance_history[h].event_type = e
                    /\ tool_maintenance_history[h].tool_life_at_event
                           = post.current_tool_life

\* An event that consumed life was accepted for a tool that had ledger
\* entries already.
C9_Witness ==
    \E p \in Procs :
        /\ AcceptedEvent(p)
        /\ loc[p].life_consumed > 0
        /\ EntriesOf(before[p].hist, loc[p].inventoryId) # {}

\* C10: for every tool and event type, the event_sequence values of the
\* non-deleted ledger entries are pairwise distinct and are exactly 1..n.
C10_SequenceGapFree ==
    \A t \in {tool_maintenance_history[h].tool_id : h \in DOMAIN tool_maintenance_history} :
        \A e \in EventTypes :
            LET entries == LiveEntriesOfType(tool_maintenance_history, t, e)
            IN /\ \A h, k \in entries :
                    h # k => tool_maintenance_history[h].event_sequence
                                # tool_maintenance_history[k].event_sequence
               /\ {tool_maintenance_history[h].event_sequence : h \in entries}
                      = 1..Cardinality(entries)

\* ------------------------------------------------- historical import
\* The request of p is an import that was answered.
Imported(p) ==
    /\ pc[p] = "done"
    /\ loc[p].handler = "createHistoricalTools"

\* The elements of the batch of p that are reported in results.success and
\* in results.errors.
Successes(p) == {loc[p].success[k].row : k \in DOMAIN loc[p].success}

Failures(p) == {loc[p].errors[k].row : k \in DOMAIN loc[p].errors}

\* The tool_id reported for element i of the batch of p.
ToolIdOf(p, i) ==
    LET k == CHOOSE k \in DOMAIN loc[p].success : loc[p].success[k].row = i
    IN loc[p].success[k].tool_id

\* The events are supplied in ascending chronological order.
Ascending(events) ==
    \A j, k \in DOMAIN events :
        j < k => SummaryDate(events[j].date) <= SummaryDate(events[k].date)

\* The cumulative life of the chronologically last event, 0 without events.
FinalLife(events) ==
    IF events = <<>> THEN 0
    ELSE LET latest == Max({SummaryDate(events[k].date) : k \in DOMAIN events})
             k == Max({j \in DOMAIN events : SummaryDate(events[j].date) = latest})
         IN events[k].life_value

\* C11: every tool that an import reports as imported has a row whose
\* current_tool_life and baseline_tool_life are both the cumulative life of
\* the chronologically last lifecycle event supplied for it, and 0 when no
\* event was supplied.
C11_ImportedLifeIsFinalLife ==
    \A p \in Procs :
        Imported(p) =>
            \A i \in Successes(p) :
                LET t == ToolIdOf(p, i)
                    final == FinalLife(loc[p].tools[i].lifecycle_events)
                IN /\ t \in DOMAIN centralized_inventory
                   /\ centralized_inventory[t].current_tool_life = final
                   /\ centralized_inventory[t].baseline_tool_life = final

\* The events of a tool of the request body that are not 'initial', in the
\* order supplied.
IsHistorical(event) == event.event_type # INITIAL

Historical(events) == SelectSeq(events, IsHistorical)

\* The elements of a set of numbers in ascending order.
RECURSIVE Sorted(_)
Sorted(S) ==
    IF S = {} THEN <<>>
    ELSE LET m == CHOOSE x \in S : \A y \in S : x <= y
         IN <<m>> \o Sorted(S \ {m})

\* C12: for every imported tool whose events were supplied in ascending
\* chronological order, the ledger holds exactly one entry per supplied event
\* that is not 'initial' and none for an 'initial' event; the k-th entry
\* carries the type and the life value of the k-th such event, and its
\* life_consumed is that life value minus the life value of the event before
\* it (0 for the first); number_of_regrinding and number_of_resegmentation
\* are the numbers of supplied events of each type.
C12_ImportWritesLedger ==
    \A p \in Procs :
        Imported(p) =>
            \A i \in Successes(p) :
                LET t == ToolIdOf(p, i)
                    events == loc[p].tools[i].lifecycle_events
                    supplied == Historical(events)
                    entries == Sorted(EntriesOf(tool_maintenance_history, t))
                IN Ascending(events) =>
                    /\ Len(entries) = Len(supplied)
                    /\ \A k \in DOMAIN entries :
                        LET entry == tool_maintenance_history[entries[k]]
                        IN /\ entry.event_type = supplied[k].event_type
                           /\ entry.tool_life_at_event = supplied[k].life_value
                           /\ entry.life_consumed =
                                supplied[k].life_value
                                - (IF k = 1 THEN 0 ELSE supplied[k - 1].life_value)
                    /\ \A e \in EventTypes :
                        Counter(centralized_inventory[t], e) = CountEvents(events, e)

\* A tool was imported whose events, in ascending order, are an 'initial'
\* event and two events of different life values after it.
C12_Witness ==
    \E p \in Procs :
        /\ Imported(p)
        /\ \E i \in Successes(p) :
            LET events == loc[p].tools[i].lifecycle_events
            IN /\ Ascending(events)
               /\ Len(events) = 3
               /\ events[1].event_type = INITIAL
               /\ Len(Historical(events)) = 2
               /\ events[2].life_value < events[3].life_value
               /\ Cardinality(EntriesOf(tool_maintenance_history, ToolIdOf(p, i))) = 2

\* The row and the ledger of a tool that was registered by createInventoryTool
\* without counts and then given the events one by one by
\* updateInventoryTool: each event is the status change to the sentinel of
\* its type, with life_consumed = consumed[k], after a change to "running"
\* when the tool has that status already.  hist is the ledger so far, keyed
\* 1..n in the order of the INSERTs.
RECURSIVE LiveTracked(_, _, _, _)
LiveTracked(tool, hist, events, consumed) ==
    IF events = <<>> THEN [tool |-> tool, hist |-> hist]
    ELSE LET status == Sentinel(events[1].event_type)
             current == SetFields(tool, FieldsToUpdate(RUNNING, 0, tool))
             currentTool == IF tool.status = status THEN current ELSE tool
             ev == MaintenanceEvent(status, consumed[1], currentTool)
             updatedTool == SetFields(currentTool,
                                      FieldsToUpdate(status, consumed[1], currentTool))
             rec == HistoryRecord(updatedTool.tool_id, ev[1].type,
                                  updatedTool.current_tool_life,
                                  updatedTool.current_tool_life
                                      - PreviousLifeAtEvent(hist, updatedTool.tool_id),
                                  NextSequence(hist, updatedTool.tool_id, ev[1].type),
                                  CurrentTimestamp(Cardinality(DOMAIN hist) + 1))
         IN LiveTracked(updatedTool, (Cardinality(DOMAIN hist) + 1 :> rec) @@ hist,
                        Tail(events), Tail(consumed))

\* The amounts the supplied events consumed: each life value minus the one
\* before it.
Consumed(supplied) ==
    [k \in DOMAIN supplied |->
        supplied[k].life_value - (IF k = 1 THEN 0 ELSE supplied[k - 1].life_value)]

\* C13: an imported tool is the tool that live tracking of the same events
\* gives: for every imported tool whose events are in ascending order and
\* consume life (no life value below the one before it), current_tool_life,
\* number_of_regrinding and number_of_resegmentation, and event_type,
\* tool_life_at_event, life_consumed and event_sequence of its ledger
\* entries in order, equal those of a tool registered empty and given the
\* same events, with the same consumed amounts, by updateInventoryTool.
C13_ImportIsLiveTracking ==
    \A p \in Procs :
        Imported(p) =>
            \A i \in Successes(p) :
                LET t == ToolIdOf(p, i)
                    events == loc[p].tools[i].lifecycle_events
                    supplied == Historical(events)
                    consumed == Consumed(supplied)
                    live == LiveTracked(NewTool(t, NOT_IN_USE, DefaultToolLife, 0, 0, 1),
                                        EmptyTable, supplied, consumed)
                    row == centralized_inventory[t]
                    entries == Sorted(EntriesOf(tool_maintenance_history, t))
                IN (Ascending(events) /\ \A k \in DOMAIN consumed : consumed[k] >= 0) =>
                    /\ row.current_tool_life = live.tool.current_tool_life
                    /\ row.number_of_regrinding = live.tool.number_of_regrinding
                    /\ row.number_of_resegmentation = live.tool.number_of_resegmentation
                    /\ Len(entries) = Cardinality(DOMAIN live.hist)
                    /\ \A k \in DOMAIN entries :
                        LET entry == tool_maintenance_history[entries[k]]
                        IN /\ entry.event_type = live.hist[k].event_type
                           /\ entry.tool_life_at_event = live.hist[k].tool_life_at_event
                           /\ entry.life_consumed = live.hist[k].life_consumed
                           /\ entry.event_sequence = live.hist[k].event_sequence

\* The statement of C13 for the bodies that carry what the handler does not
\* derive: a current_tool_life that is the final life of the events, and for
\* every event its sequence among the events of its type.
SequencesSupplied(supplied) ==
    \A k \in DOMAIN supplied :
        supplied[k].sequence =
            Cardinality({j \in 1..k : supplied[j].event_type = supplied[k].event_type})

ImportIsLiveTrackingOfCompleteBody ==
    \A p \in Procs :
        Imported(p) =>
            \A i \in Successes(p) :
                LET t == ToolIdOf(p, i)
                    tool == loc[p].tools[i]
                    supplied == Historical(tool.lifecycle_events)
                    consumed == Consumed(supplied)
                    live == LiveTracked(NewTool(t, NOT_IN_USE, DefaultToolLife, 0, 0, 1),
                                        EmptyTable, supplied, consumed)
                    row == centralized_inventory[t]
                    entries == Sorted(EntriesOf(tool_maintenance_history, t))
                IN ( /\ Ascending(tool.lifecycle_events)
                     /\ \A k \in DOMAIN consumed : consumed[k] >= 0
                     /\ tool.current_tool_life = live.tool.current_tool_life
                     /\ SequencesSupplied(supplied) ) =>
                    /\ row.current_tool_life = live.tool.current_tool_life
                    /\ row.number_of_regrinding = live.tool.number_of_regrinding
                    /\ row.number_of_resegmentation = live.tool.number_of_resegmentation
                    /\ Len(entries) = Cardinality(DOMAIN live.hist)
                    /\ \A k \in DOMAIN entries :
                        LET entry == tool_maintenance_history[entries[k]]
                        IN /\ entry.event_type = live.hist[k].event_type
                           /\ entry.tool_life_at_event = live.hist[k].tool_life_at_event
                           /\ entry.life_consumed = live.hist[k].life_consumed
                           /\ entry.event_sequence = live.hist[k].event_sequence

\* The rollup rows of a tool.
SummaryKeys(sum, tool_id) == {key \in DOMAIN sum : key[1] = tool_id}

Revolutions(sum) == [key \in DOMAIN sum |-> sum[key].total_ts_revolutions]

\* Element i of the batch of p passes validation and names a factory that
\* exists.
ValidElement(p, i) ==
    /\ ValidationError(loc[p].tools[i]) = ""
    /\ loc[p].tools[i].current_factory_id \in Factories

\* Element i of the batch of p is persisted in full: its row with its
\* counters, one ledger entry per event that is not 'initial', a rollup row
\* for the day of each of these events, and in the rollup rows of the tool
\* together the life that the events consumed.
Persisted(p, i) ==
    LET t == ToolIdOf(p, i)
        events == loc[p].tools[i].lifecycle_events
        supplied == Historical(events)
        consumed == Consumed(supplied)
    IN /\ t \in DOMAIN centralized_inventory
       /\ \A e \in EventTypes :
            Counter(centralized_inventory[t], e) = CountEvents(events, e)
       /\ Cardinality(EntriesOf(tool_maintenance_history, t)) = Len(supplied)
       /\ SummaryKeys(daily_tool_summary, t)
            = {<<t, 1, SummaryDate(supplied[k].date)>> : k \in DOMAIN supplied}
       /\ SumOver(Revolutions(daily_tool_summary), SummaryKeys(daily_tool_summary, t))
            = SumOver(consumed, DOMAIN consumed)

ImportedToolIds(p) == {loc[p].success[k].tool_id : k \in DOMAIN loc[p].success}

ConsumedOn(supplied, day) ==
    LET consumed == Consumed(supplied)
    IN SumOver(consumed, {k \in DOMAIN supplied : SummaryDate(supplied[k].date) = day})

\* C16: the rollup merge adds: when an import is answered, every rollup row
\* of an imported tool holds in total_ts_revolutions the sum of the deltas
\* that the import merged into its key (tool, machine 1, day), one delta per
\* event of that day, and in total_hlp_run the sum of their hlp deltas, which
\* are 0, whatever was merged into other keys before and after; and the
\* rollup rows that the table gained are the rows of these keys.
C16_RollupIsAdditive ==
    \A p \in Procs :
        Imported(p) =>
            /\ \A i \in Successes(p) :
                LET t == ToolIdOf(p, i)
                    supplied == Historical(loc[p].tools[i].lifecycle_events)
                IN \A k \in DOMAIN supplied :
                    LET key == <<t, 1, SummaryDate(supplied[k].date)>>
                    IN /\ key \in DOMAIN daily_tool_summary
                       /\ daily_tool_summary[key].total_ts_revolutions
                            = ConsumedOn(supplied, key[3])
                       /\ daily_tool_summary[key].total_hlp_run = 0
            /\ (DOMAIN daily_tool_summary) \ (DOMAIN before[p].sum) =
                 UNION { LET supplied == Historical(loc[p].tools[i].lifecycle_events)
                         IN {<<ToolIdOf(p, i), 1, SummaryDate(supplied[k].date)>> :
                                k \in DOMAIN supplied} : i \in Successes(p) }

\* A tool was imported with two events of one day, each with a positive
\* delta, and an event of another day.
C16_Witness ==
    \E p \in Procs :
        /\ Imported(p)
        /\ \E i \in Successes(p) :
            LET supplied == Historical(loc[p].tools[i].lifecycle_events)
                consumed == Consumed(supplied)
            IN /\ Len(supplied) = 3
               /\ supplied[1].date = supplied[2].date
               /\ supplied[3].date # supplied[1].date
               /\ consumed[1] > 0 /\ consumed[2] > 0
               /\ daily_tool_summary[<<ToolIdOf(p, i), 1, supplied[1].date>>]
                     .total_ts_revolutions = consumed[1] + consumed[2]
               /\ Cardinality(SummaryKeys(daily_tool_summary, ToolIdOf(p, i))) = 2

\* ------------------------------------------------- rollup under concurrency
AfterImportNotReached == ~(AfterImport /\ Quiescent)

\* The request of p is a rollup merge that was answered.
Merged(p) ==
    /\ pc[p] = "done"
    /\ loc[p].handler = "dailySummaryInsertQuery"

\* total_ts_revolutions of a key in a rollup table, 0 when it has no row.
RevolutionsOf(sum, key) ==
    IF key \in DOMAIN sum THEN sum[key].total_ts_revolutions ELSE 0

\* The sum of the deltas of the merges into a key that the requests of S
\* have made.
RECURSIVE LifeGainedBy(_, _)
LifeGainedBy(S, key) ==
    IF S = {} THEN 0
    ELSE LET p == CHOOSE r \in S : TRUE
         IN (IF Merged(p) /\ loc[p].summaryKey = key THEN loc[p].lifeGained ELSE 0)
            + LifeGainedBy(S \ {p}, key)

\* C17: when two merges into the same key ran concurrently (neither was
\* committed when the other arrived) and every merge is committed, no delta
\* is lost: the key has one row, its total_ts_revolutions is the value the
\* import left there (0 when it left no row) plus the deltas of all the
\* merges into the key, these two among them, and its total_hlp_run, whose
\* deltas are 0, is as it was.
C17_ConcurrentMerges ==
    \A p, q \in Procs :
        ( /\ p # q
          /\ Merged(p) /\ Merged(q)
          /\ loc[p].summaryKey = loc[q].summaryKey
          /\ before[p].sum = before[q].sum
          /\ \A c \in Pool : ~conn[c].inTxn )
        => LET key == loc[p].summaryKey
           IN /\ key \in DOMAIN daily_tool_summary
              /\ daily_tool_summary[key].total_ts_revolutions =
                    (IF key = <<1, 1, 1>> THEN 1 ELSE 0) + LifeGainedBy(Procs, key)
              /\ daily_tool_summary[key].total_hlp_run = 0

\* Two merges into the key that had a row arrived before either ran, and
\* both are committed.
C17_Witness ==
    \E p, q \in Procs :
        /\ p # q
        /\ Merged(p) /\ Merged(q)
        /\ loc[p].summaryKey = loc[q].summaryKey
        /\ loc[p].summaryKey \in DOMAIN before[p].sum
        /\ before[p].sum = before[q].sum
        /\ \A c \in Pool : ~conn[c].inTxn
        /\ daily_tool_summary[loc[p].summaryKey].total_ts_revolutions
              = 1 + loc[p].lifeGained + loc[q].lifeGained

\* The same for the key that had no row.
C17_WitnessInsert ==
    \E p, q \in Procs :
        /\ p # q
        /\ Merged(p) /\ Merged(q)
        /\ loc[p].summaryKey = loc[q].summaryKey
        /\ loc[p].summaryKey \notin DOMAIN before[p].sum
        /\ before[p].sum = before[q].sum
        /\ \A c \in Pool : ~conn[c].inTxn
        /\ loc[p].summaryKey \in DOMAIN daily_tool_summary

\* ------------------------------------------------- status resolution
\* The rows of the stream that a status query resolves over: all of them,
\* or those of the machine it was asked about.
Scope ==
    IF resolved.machineId = 0 THEN DOMAIN drive_status
    ELSE {n \in DOMAIN drive_status : drive_status[n].machine_id = resolved.machineId}

\* The rows of a key (a tool within the scope) and its greatest timestamp.
RowsOfKey(t) == {n \in Scope : drive_status[n].tool_id = t}

LatestTimestamp(t) == Max({drive_status[n].timestamp : n \in RowsOfKey(t)})

\* C18: after every status query, over every stream, the resolver holds
\* exactly one row per key that has a row in the stream (the key is the tool,
\* within the rows of the machine when the query is about one machine), and
\* the row it holds for a key has the greatest timestamp among the rows of
\* that key, wherever in the insertion order it is.
C18_LatestPerKey ==
    resolved.handler # "" =>
        /\ DOMAIN resolved.latest = {drive_status[n].tool_id : n \in Scope}
        /\ \A t \in DOMAIN resolved.latest :
            /\ resolved.latest[t] \in RowsOfKey(t)
            /\ drive_status[resolved.latest[t]].timestamp = LatestTimestamp(t)

\* The stream is (t=1, in_drive), (t=5, removed), (t=3, in_drive) of one key
\* and the resolver holds the row of t=5, "removed".
C18_Witness ==
    /\ resolved.handler # ""
    /\ Len(drive_status) = 3
    /\ \A n \in 1..3 : drive_status[n].tool_id = 1 /\ drive_status[n].machine_id = 1
    /\ drive_status[1].timestamp = 1 /\ drive_status[1].status = IN_DRIVE
    /\ drive_status[2].timestamp = 5 /\ drive_status[2].status = REMOVED
    /\ drive_status[3].timestamp = 3 /\ drive_status[3].status = IN_DRIVE
    /\ resolved.latest = (1 :> 2)

\* The rows of a key that carry its greatest timestamp: its latest status.
LatestRows(t) == {n \in RowsOfKey(t) : drive_status[n].timestamp = LatestTimestamp(t)}

\* C19: the status filter is applied to the resolved latest row, never to
\* the stream: a tool that a query reports as active (the target tool of a
\* machine, or the tool behind a machine in the list of active machines) has
\* 'in_drive' as its latest status over all rows of its key; a tool whose
\* latest row is not 'in_drive' is not reported, however many earlier
\* 'in_drive' rows it has.
C19_FilterAfterResolution ==
    /\ resolved.handler \in {"getToolChartData", "getCumulativeChartData",
                            "getCompleteToolHistory"} =>
        \A t \in resolved.rows :
            \E n \in LatestRows(t) : drive_status[n].status = IN_DRIVE
    /\ resolved.handler = "getActiveMachinesByType" =>
        \A m \in resolved.rows :
            \E t \in 1..MaxTools :
                /\ RowsOfKey(t) # {}
                /\ \E n \in LatestRows(t) : /\ drive_status[n].status = IN_DRIVE
                                            /\ drive_status[n].machine_id = m

\* A tool with two 'in_drive' rows and a later 'removed' row on machine 1 is
\* not reported by the export for machine 1.
C19_Witness ==
    /\ resolved.handler = "getCompleteToolHistory"
    /\ resolved.machineId = 1
    /\ resolved.toolType = "cutting"
    /\ Len(drive_status) = 3
    /\ \A n \in 1..3 : drive_status[n].tool_id = 1 /\ drive_status[n].machine_id = 1
    /\ drive_status[1].status = IN_DRIVE /\ drive_status[1].timestamp = 1
    /\ drive_status[2].status = IN_DRIVE /\ drive_status[2].timestamp = 3
    /\ drive_status[3].status = REMOVED /\ drive_status[3].timestamp = 5
    /\ resolved.rows = {}
    /\ resolved.code = 404

\* The same tool is not behind any machine in the list of active machines.
C19_WitnessActiveMachines ==
    /\ resolved.handler = "getActiveMachinesByType"
    /\ resolved.toolType = "cutting"
    /\ Len(drive_status) = 2
    /\ \A n \in 1..2 : drive_status[n].tool_id = 1 /\ drive_status[n].machine_id = 1
    /\ drive_status[1].status = IN_DRIVE /\ drive_status[1].timestamp = 1
    /\ drive_status[2].status = REMOVED /\ drive_status[2].timestamp = 3
    /\ resolved.rows = {}

\* ------------------------------------------------- soft delete
\* The request of p is a deletion of a tool that was answered with success.
Deleted(p) ==
    /\ pc[p] = "done"
    /\ loc[p].handler = "deleteInventoryTool"
    /\ res[p].code = 200

\* C20: deleteInventoryTool is a soft delete: after a successful deletion of
\* tool T the row of T is still there, with status "deleted" and its other
\* columns as before; every ledger entry of T has is_deleted = true and is
\* otherwise as before; no row and no ledger entry was removed or added; and
\* the rows and ledger entries of the other tools are as they were.
C20_SoftDelete ==
    \A p \in Procs :
        Deleted(p) =>
            LET t == loc[p].inventoryId
            IN /\ DOMAIN centralized_inventory = DOMAIN before[p].inv
               /\ DOMAIN tool_maintenance_history = DOMAIN before[p].hist
               /\ t \in DOMAIN centralized_inventory
               /\ centralized_inventory[t] = [before[p].inv[t] EXCEPT !.status = DELETED]
               /\ \A u \in (DOMAIN centralized_inventory) \ {t} :
                    centralized_inventory[u] = before[p].inv[u]
               /\ \A h \in DOMAIN tool_maintenance_history :
                    IF before[p].hist[h].tool_id = t
                    THEN tool_maintenance_history[h]
                            = [before[p].hist[h] EXCEPT !.is_deleted = TRUE]
                    ELSE tool_maintenance_history[h] = before[p].hist[h]

\* A tool with a ledger entry was deleted while another tool had a ledger
\* entry too.
C20_Witness ==
    \E p \in Procs :
        /\ Deleted(p)
        /\ \E h, k \in DOMAIN before[p].hist :
            /\ before[p].hist[h].tool_id = loc[p].inventoryId
            /\ ~before[p].hist[h].is_deleted
            /\ tool_maintenance_history[h].is_deleted
            /\ before[p].hist[k].tool_id # loc[p].inventoryId
            /\ before[p].hist[k].tool_id \in DOMAIN centralized_inventory
            /\ ~tool_maintenance_history[k].is_deleted
        /\ before[p].inv[loc[p].inventoryId].status # DELETED
        /\ centralized_inventory[loc[p].inventoryId].status = DELETED

\* ------------------------------------------------- derived life_consumed
\* The non-deleted ledger entries of a tool that have its latest timestamp.
MostRecent(hist, tool_id) ==
    {h \in LiveEntries(hist, tool_id) :
        \A k \in LiveEntries(hist, tool_id) : hist[k].timestamp <= hist[h].timestamp}

\* C21: a maintenance event that was accepted without an explicit consumed
\* amount writes a ledger entry whose life_consumed is the tool's current
\* cumulative life minus the tool_life_at_event of the tool's most recent
\* non-deleted entry (the one of the latest timestamp, any of them when
\* several have it), and 0 when the tool had no non-deleted entry.
C21_DerivedLifeConsumed ==
    \A p \in Procs :
        (AcceptedEvent(p) /\ loc[p].life_consumed = 0) =>
            LET t == loc[p].inventoryId
                prior == LiveEntries(before[p].hist, t)
                new == (DOMAIN tool_maintenance_history) \ (DOMAIN before[p].hist)
            IN \A h \in new :
                IF prior = {}
                THEN tool_maintenance_history[h].life_consumed = 0
                ELSE \E k \in MostRecent(before[p].hist, t) :
                        tool_maintenance_history[h].life_consumed
                            = centralized_inventory[t].current_tool_life
                              - before[p].hist[k].tool_life_at_event

\* ------------------------------------------------- monotone life
\* C22: in every committed state, for every tool, the non-deleted ledger
\* entries in ascending timestamp order have non-decreasing
\* tool_life_at_event: an entry of an earlier timestamp never has the
\* greater life.
C22_LifeNonDecreasing ==
    \A h, k \in DOMAIN tool_maintenance_history :
        LET earlier == tool_maintenance_history[h]
            later == tool_maintenance_history[k]
        IN ( /\ earlier.tool_id = later.tool_id
             /\ ~earlier.is_deleted /\ ~later.is_deleted
             /\ earlier.timestamp < later.timestamp )
           => earlier.tool_life_at_event <= later.tool_life_at_event

\* ------------------------------------------------- chronological replay
\* The life at the chronologically previous entry of a tool: the
\* tool_life_at_event of the entry of the latest timestamp before that of
\* entry h, 0 when h is the first in time.
LifeBefore(hist, h) ==
    LET past == {k \in EntriesOf(hist, hist[h].tool_id) :
                    hist[k].timestamp < hist[h].timestamp}
        previous == CHOOSE k \in past : \A m \in past : hist[m].timestamp <= hist[k].timestamp
    IN IF past = {} THEN 0 ELSE hist[previous].tool_life_at_event

\* The events are of pairwise different days: their chronological order is
\* one order.
DistinctDays(supplied) ==
    \A j, k \in DOMAIN supplied :
        j # k => SummaryDate(supplied[j].date) # SummaryDate(supplied[k].date)

\* C23: the importer replays the events in ascending chronological order,
\* in whatever order they are supplied: for every imported tool whose events
\* are of different days, the life_consumed of each ledger entry is its
\* tool_life_at_event minus that of the chronologically previous entry (0
\* for the first), and the rollup row of the entry's day holds that same
\* amount; so every permutation of the events gives the same entries and
\* the same rollup rows.
C23_ChronologicalReplay ==
    \A p \in Procs :
        Imported(p) =>
            \A i \in Successes(p) :
                LET t == ToolIdOf(p, i)
                    supplied == Historical(loc[p].tools[i].lifecycle_events)
                IN DistinctDays(supplied) =>
                    \A h \in EntriesOf(tool_maintenance_history, t) :
                        LET entry == tool_maintenance_history[h]
                            consumed == entry.tool_life_at_event
                                        - LifeBefore(tool_maintenance_history, h)
                            key == <<t, 1, entry.timestamp>>
                        IN /\ entry.life_consumed = consumed
                           /\ key \in DOMAIN daily_tool_summary
                           /\ daily_tool_summary[key].total_ts_revolutions = consumed

\* C24: when several rows of a key share its greatest timestamp, the
\* resolver holds the one that was inserted last: after every status query
\* the row held for a key has the status and the machine of the last in
\* insertion order of the rows that carry the key's greatest timestamp.
C24_LastWriteWins ==
    resolved.handler # "" =>
        \A t \in DOMAIN resolved.latest :
            drive_status[resolved.latest[t]] = drive_status[Max(LatestRows(t))]

\* ------------------------------------------------- no active tool
\* No tool of the type asked for is active in the scope of the query: the
\* scope has no row at all, or no key of it has 'in_drive' as a latest status.
NoActiveTool ==
    \A t \in 1..MaxTools :
        \A n \in LatestRows(t) :
            drive_status[n].status # IN_DRIVE \/ tools[t].tool_type # resolved.toolType

\* C25: a query that resolves the active tool (the intraday chart, the
\* cumulative chart, the export of the complete history, the list of active
\* machines) over a scope without status history, or without a tool that is
\* 'in_drive', answers with success and an empty result ("Unknown Tool", no
\* machine), not with an error.
C25_NoActiveToolIsNoError ==
    (resolved.handler # "" /\ NoActiveTool) =>
        /\ resolved.rows = {}
        /\ resolved.code = 200

\* The statement of C25 for the three queries other than the export.
NoActiveToolIsNoErrorInCharts ==
    ( /\ resolved.handler \in {"getToolChartData", "getCumulativeChartData",
                               "getActiveMachinesByType"}
      /\ NoActiveTool ) =>
        /\ resolved.rows = {}
        /\ resolved.code = 200

\* ------------------------------------------------- retired tools
\* C27: a soft-deleted tool stays retired: a tool that had the status
\* "deleted" when a request arrived has it when the request is answered,
\* whatever the request was, and has no ledger entry with is_deleted = false
\* that it did not have before.
C27_DeletedStaysDeleted ==
    \A p \in Procs :
        pc[p] = "done" =>
            \A t \in DOMAIN before[p].inv :
                before[p].inv[t].status = DELETED =>
                    /\ t \in DOMAIN centralized_inventory
                    /\ centralized_inventory[t].status = DELETED
                    /\ LiveEntries(tool_maintenance_history, t)
                          \subseteq LiveEntries(before[p].hist, t)

\* ------------------------------------------------- one machine per tool
\* The machines on which the machine-scoped resolution can report tool t
\* active: the latest row of t among the rows of the machine is 'in_drive'.
ActiveOnMachine(t) ==
    {m \in 1..MaxMachines :
        \E latest \in DistinctOnTool(drive_status, DriveStatusOnMachine(drive_status, m)) :
            t \in InDrive(drive_status, latest, tools[t].tool_type)}

\* The machines on which the global resolution can report tool t 'in_drive':
\* the machine of the latest row of t over all rows, when it is 'in_drive'.
ActiveGlobally(t) ==
    {drive_status[latest[t]].machine_id :
        latest \in {l \in DistinctOnTool(drive_status, DriveStatus(drive_status)) :
                       t \in InDrive(drive_status, l, tools[t].tool_type)}}

\* The rows of tool t have pairwise different timestamps: what is resolved
\* for t does not depend on how ties are broken.
NoTies(t) ==
    \A j, k \in DOMAIN drive_status :
        ( /\ j # k
          /\ drive_status[j].tool_id = t
          /\ drive_status[k].tool_id = t )
        => drive_status[j].timestamp # drive_status[k].timestamp

\* C28: over every stream, a tool is reported active on at most one machine,
\* and the two resolutions agree: a tool that a machine-scoped query (the
\* charts, the export) reports as the active tool of machine M is 'in_drive'
\* on M by the global resolution, and no machine-scoped query reports it
\* active on another machine.
C28_ResolutionsAgree ==
    resolved.handler \in {"getToolChartData", "getCumulativeChartData",
                          "getCompleteToolHistory"} =>
        \A t \in resolved.rows :
            NoTies(t) =>
                /\ resolved.machineId \in ActiveGlobally(t)
                /\ ActiveOnMachine(t) = {resolved.machineId}

\* ------------------------------------------------- no change, no event
\* The request of p is an update that asks for the status the tool has, and
\* it was answered by the handler (no statement failed).
Unchanging(p) ==
    /\ pc[p] = "done"
    /\ loc[p].handler = "updateInventoryTool"
    /\ loc[p].inventoryId \in DOMAIN before[p].inv
    /\ loc[p].status = before[p].inv[loc[p].inventoryId].status
    /\ res[p].code # 500

\* C29: a maintenance event is recorded only on a status transition: an
\* update whose fields equal the tool's current values, the maintenance
\* status the tool already has among them and with or without a
\* life_consumed, writes nothing (the rows, their counters and lives, the
\* ledger and the rollup are as they were) and is answered 200 with
\* changed = false.
C29_NoChangeWritesNothing ==
    \A p \in Procs :
        Unchanging(p) =>
            /\ res[p].code = 200
            /\ ~res[p].changed
            /\ res[p].history_id = 0
            /\ centralized_inventory = before[p].inv
            /\ tool_maintenance_history = before[p].hist
            /\ daily_tool_summary = before[p].sum

\* A tool in the regrinding sentinel status, with a ledger entry, was asked
\* to go to that status again with a life_consumed, and nothing was written.
C29_Witness ==
    \E p \in Procs :
        /\ Unchanging(p)
        /\ loc[p].status = SENT_REGRINDING
        /\ loc[p].life_consumed > 0
        /\ LiveEntries(before[p].hist, loc[p].inventoryId) # {}
        /\ ~res[p].changed
        /\ tool_maintenance_history = before[p].hist

\* ------------------------------------------------- factory isolation
\* The request of p came from a UnitAdmin and was answered.
ByUnitAdmin(p) ==
    /\ pc[p] = "done"
    /\ loc[p].user.role = "UnitAdmin"

\* C30: whatever a UnitAdmin of factory F requests (create, import, update,
\* delete, reversal), when the request is answered every tool that was in
\* another factory has the row and the ledger entries it had when the
\* request arrived, and every tool that was in F is in F.
C30_FactoryIsolation ==
    \A p \in Procs :
        ByUnitAdmin(p) =>
            \A t \in DOMAIN before[p].inv :
                IF before[p].inv[t].current_factory_id # loc[p].user.factory_id
                THEN /\ t \in DOMAIN centralized_inventory
                     /\ centralized_inventory[t] = before[p].inv[t]
                     /\ EntriesOf(tool_maintenance_history, t) = EntriesOf(before[p].hist, t)
                     /\ \A h \in EntriesOf(before[p].hist, t) :
                            tool_maintenance_history[h] = before[p].hist[h]
                ELSE /\ t \in DOMAIN centralized_inventory
                     /\ centralized_inventory[t].current_factory_id = loc[p].user.factory_id

\* The part of C30 that the authorization checks of updateInventoryTool and
\* deleteInventoryTool are there for: an update or a deletion of a tool of
\* another factory by a UnitAdmin is answered 403 and changes nothing.
ForeignToolIsForbidden ==
    \A p \in Procs :
        ( /\ ByUnitAdmin(p)
          /\ loc[p].handler \in {"updateInventoryTool", "deleteInventoryTool"}
          /\ loc[p].inventoryId \in DOMAIN before[p].inv
          /\ before[p].inv[loc[p].inventoryId].current_factory_id # loc[p].user.factory_id
          /\ res[p].code # 500 )
        => /\ res[p].code = 403
           /\ centralized_inventory = before[p].inv
           /\ tool_maintenance_history = before[p].hist

\* ------------------------------------------------- unified history
\* The history of a tool was asked for and answered, the database working.
HistoryAnswered(p) ==
    /\ pc[p] = "done"
    /\ loc[p].handler = "getInventoryHistory"
    /\ res[p].code # 500

\* The ledger entries of the tool at the instant of the audit entry l: the
\* same millisecond.
SameInstant(l, tool_id) ==
    { h \in EntriesOf(tool_maintenance_history, tool_id) :
        Timestamptz3(tool_maintenance_history[h].timestamp)
            = Timestamptz3(change_log[l].change_timestamp) }

\* The cross-references the answer gives for the audit entry l.
ReferencesOf(p, l) ==
    {row.maintenance_history_id : row \in {r \in res[p].rows : r.log_id = l}}

\* C26: the history of an unknown tool is answered NotFound; the history of
\* a tool is answered 200 with the audit entries of that tool and no others,
\* an entry carrying a maintenance_history_id exactly when its field is the
\* status and a ledger entry of the tool has its timestamp, the id being
\* that of such a ledger entry, and every other entry returned once without
\* a reference.
C26_UnifiedHistory ==
    \A p \in Procs :
        HistoryAnswered(p) =>
            IF loc[p].inventoryId \notin DOMAIN centralized_inventory
            THEN res[p].code = 404
            ELSE LET tool_id == centralized_inventory[loc[p].inventoryId].tool_id
                 IN /\ res[p].code = 200
                    /\ {r.log_id : r \in res[p].rows}
                         = {l \in DOMAIN change_log :
                              change_log[l].inventory_id = loc[p].inventoryId}
                    /\ \A r \in res[p].rows :
                        LET l == r.log_id
                        IN IF /\ change_log[l].field_changed = "status"
                              /\ SameInstant(l, tool_id) # {}
                           THEN ReferencesOf(p, l) = SameInstant(l, tool_id)
                           ELSE /\ ReferencesOf(p, l) = {NULL}
                                /\ Cardinality({q \in res[p].rows : q.log_id = l}) = 1

\* A history in which a status change carries the reference to a ledger
\* entry written in the same millisecond at another tick, and a factory
\* change of that instant carries none.
C26_Witness ==
    \E p \in Procs :
        /\ HistoryAnswered(p)
        /\ res[p].code = 200
        /\ \E r, q \in res[p].rows :
            /\ r.field_changed = "status"
            /\ r.maintenance_history_id # NULL
            /\ tool_maintenance_history[r.maintenance_history_id].timestamp
                 # r.change_timestamp
            /\ q.field_changed = "current_factory_id"
            /\ q.maintenance_history_id = NULL
            /\ Timestamptz3(q.change_timestamp) = Timestamptz3(r.change_timestamp)

\* A status change with no ledger entry of its tool at its instant, while
\* another tool has one, is returned without a reference.
C26_WitnessNoMatch ==
    \E p \in Procs :
        /\ HistoryAnswered(p)
        /\ res[p].code = 200
        /\ \E r \in res[p].rows :
            /\ r.field_changed = "status"
            /\ r.maintenance_history_id = NULL
            /\ \E h \in DOMAIN tool_maintenance_history :
                /\ tool_maintenance_history[h].tool_id # loc[p].inventoryId
                /\ tool_maintenance_history[h].timestamp = r.change_timestamp

\* The history of an unknown tool was asked for.
C26_WitnessNotFound ==
    \E p \in Procs :
        /\ HistoryAnswered(p)
        /\ loc[p].inventoryId \notin DOMAIN centralized_inventory

====
